---- MODULE Spec2Model ----
(***************************************************************************)
(* Model of the call-marshaling bridge of the Python 3.12 language module  *)
(* (src/src/module.cpp): the function identity cache                        *)
(* (GetOrCreateFunctionObject / GetOrCreateFunctionValue / OnPluginLoad)    *)
(* and the inbound dispatcher (InternalCall) with the value marshaler it    *)
(* uses (ValueFromObject, SetReturn, SetRefParam, SetFallbackReturn).       *)
(***************************************************************************)
EXTENDS Integers, Sequences, FiniteSets, TLC

(***************************************************************************)
(* Bounds of the model.                                                     *)
(***************************************************************************)
NumFunctions == 1   \* script functions defined by plugin modules
NumNative == 1      \* native function addresses known to the host
MaxExports == 2     \* exported methods per plugin descriptor
MaxJit == 2         \* trampolines the JIT runtime can hold
NumThreads == 2     \* native threads that call into the module at once
MaxTupleLen == 3    \* elements of a tuple the script callable returns

(***************************************************************************)
(* Script objects (PyObject pointers) and native addresses (void pointers). *)
(* A script object is a record: k its Python type, n a number (identity of  *)
(* a function, value of an int), s code points of a str, v its elements or  *)
(* attributes.                                                               *)
(***************************************************************************)
SObj(k, n, s, v) == [k |-> k, n |-> n, s |-> s, v |-> v]

NullObj == SObj("NULL", 0, <<>>, <<>>)          \* the C null object pointer
Py_None == SObj("NoneType", 0, <<>>, <<>>)
PyFunction(i) == SObj("function", i, <<>>, <<>>)          \* a def: PyFunction_Type
PyMethod(i) == SObj("method", i, <<>>, <<>>)              \* PyMethod_New: a fresh bound method
PyCFunction(i) == SObj("builtin_function_or_method", i, <<>>, <<>>)  \* PyCFunction_New
PyLong(i) == SObj("int", i, <<>>, <<>>)
\* an int whose magnitude is 2^31 or more: the sign and the magnitude as five
\* digits of base 65536, most significant first
PyLongWide(sign, limbs) == SObj("int", sign, limbs, <<>>)

\* an address has the shape of a script object so that keys and results compare
Addr(k, i) == [k |-> k, n |-> i, s |-> <<>>, v |-> <<>>]
NullAddr == Addr("nullptr", 0)                     \* nullptr
NativeAddr(i) == Addr("native", i)              \* a function compiled into the host or a plugin
JitAddr(i) == Addr("jit", i)                    \* code emitted by the trampoline generator

PyFunction_Check(object) == object.k = "function"
PyBool(b) == SObj("bool", IF b THEN 1 ELSE 0, <<>>, <<>>)   \* Py_True / Py_False
PyFloat(x) == SObj("float", x, <<>>, <<>>)
PyUnicode(s) == SObj("str", 0, s, <<>>)                     \* s: the code points
PyList(items) == SObj("list", 0, <<>>, items)
PyTuple(items) == SObj("tuple", 0, <<>>, items)
\* an instance of the geometry classes: v holds the attributes x, y, z, w in
\* this order, or the one attribute "elements" of a Matrix4x4
PyVector(type, attrs) == SObj(type, 0, <<>>, attrs)
PyMatrix4x4(elements) == SObj("Matrix4x4", 0, <<>>, <<elements>>)

PyBool_Check(object) == object.k = "bool"
PyLong_Check(object) == object.k \in {"int", "bool"}        \* bool is a subclass of int
PyFloat_Check(object) == object.k = "float"
PyUnicode_Check(object) == object.k = "str"
PyList_Check(object) == object.k = "list"
PyList_CheckExact(object) == object.k = "list"
PyTuple_CheckExact(object) == object.k = "tuple"

(***************************************************************************)
(* Native values, in the shape of script objects so that slots compare:    *)
(* a machine word, a std::string (s: its bytes), a std::vector (v: its      *)
(* elements), a Vector2/3/4 or Matrix4x4 (v: its floats), storage that was  *)
(* never written, and the pointer to the hidden return storage.             *)
(***************************************************************************)
NVal(k, n, s, v) == [k |-> k, n |-> n, s |-> s, v |-> v]
Unwritten == NVal("unwritten", 0, <<>>, <<>>)
Scalar(n) == NVal("scalar", n, <<>>, <<>>)
\* an integer of 64 bits whose magnitude is 2^31 or more, as PyLongWide
WideScalar(sign, limbs) == NVal("scalar", sign, limbs, <<>>)
StdString(bytes) == NVal("string", 0, bytes, <<>>)
StdVector(items) == NVal("vector", 0, <<>>, items)
Aggregate(type, floats) == NVal(type, 0, <<>>, floats)
ReturnParam == NVal("returnParam", 0, <<>>, <<>>)

(***************************************************************************)
(* The closed set of value types.                                           *)
(***************************************************************************)
ElementType ==
    [ArrayBool |-> "Bool", ArrayChar8 |-> "Char8", ArrayChar16 |-> "Char16",
     ArrayInt8 |-> "Int8", ArrayInt16 |-> "Int16", ArrayInt32 |-> "Int32",
     ArrayInt64 |-> "Int64", ArrayUInt8 |-> "UInt8", ArrayUInt16 |-> "UInt16",
     ArrayUInt32 |-> "UInt32", ArrayUInt64 |-> "UInt64", ArrayPointer |-> "Pointer",
     ArrayFloat |-> "Float", ArrayDouble |-> "Double", ArrayString |-> "String"]
ArrayTypes == DOMAIN ElementType
IntegerTypes == {"Int8", "Int16", "Int32", "Int64", "UInt8", "UInt16", "UInt32", "UInt64"}
WordTypes == {"Bool", "Char8", "Char16", "Pointer", "Float", "Double"} \cup IntegerTypes
VectorSize == [Vector2 |-> 2, Vector3 |-> 3, Vector4 |-> 4]
VectorTypes == DOMAIN VectorSize
ValueTypes ==
    {"Void", "Function", "String", "Matrix4x4"} \cup WordTypes \cup ArrayTypes \cup VectorTypes

Property(type, ref) == [type |-> type, ref |-> ref]
Method(retType, paramTypes) == [retType |-> Property(retType, FALSE), paramTypes |-> paramTypes]

\* PY3LM_PLATFORM_WINDOWS, or PY3LM_PLATFORM_LINUX / PY3LM_PLATFORM_APPLE
Platforms == {"windows", "linux"}

\* ValueUtils::IsObject, ValueUtils::IsHiddenParam: the return types whose value
\* is constructed in storage the caller passes as argument 0
IsObject(type) == type = "String" \/ type \in ArrayTypes
IsHiddenParam(plat, type) ==
    \/ IsObject(type)
    \/ type = "Matrix4x4"
    \/ plat = "windows" /\ type \in {"Vector3", "Vector4"}


ScriptFunctions == {PyFunction(i) : i \in 1..NumFunctions}
NativeFunctions == {NativeAddr(i) : i \in 1..NumNative}
PluginNames == {"plugin"}
MethodNames == {"noargs", "args"}               \* method.paramTypes.empty() or not

VARIABLES
    externalMap,        \* _externalMap: native address -> script callable
    internalMap,        \* _internalMap: script callable -> native address
    externalFunctions,  \* _externalFunctions: outbound wrappers generated
    internalFunctions,  \* _internalFunctions: inbound wrappers generated
    pythonMethods,      \* _pythonMethods: exported method trampolines
    pluginsMap,         \* _pluginsMap: names of loaded plugins
    jitCount,           \* trampolines emitted by the JIT runtime and kept
    objCount,           \* script objects allocated by the module
    last,               \* the last cache operation and what it returned
    noted,              \* one earlier successful get-or-create call, remembered: <<op, key, result>>
    platform,           \* the platform the module was built for
    pc,                 \* "native" until InternalCall has run, then "returned"
    calledMethod,       \* the method of the inbound call
    nativeParams,       \* the argument slots as the native caller filled them
    slots,              \* the argument slots when InternalCall is left
    retReg,             \* the return register
    pyErr,              \* the interpreter's pending exception, "" when clear
    printed,            \* the exceptions printed to stderr
    terminated,         \* std::terminate or a fault ended the process
    called,             \* the script callable was called
    passed,             \* the arguments it was called with
    returned,           \* the object it returned, NullObj when it raised
    exitPath,           \* the return statement InternalCall left through
    extPc,              \* "script" until an outbound dispatcher has run, then "returned"
    extMethod,          \* the method of the outbound call
    extArgs,            \* the argument tuple of the script caller
    extResult,          \* the object handed back to the script caller, NullObj when it raises
    extScope,           \* the call scope when the dispatcher is left
    threads,            \* where each thread is in GetOrCreateFunctionObject / Value
    raceFault           \* two unsynchronised writes to a container overlapped

inboundVars == <<platform, pc, calledMethod, nativeParams, slots, retReg, pyErr, printed,
                 terminated, called, passed, returned, exitPath>>

outboundVars == <<extPc, extMethod, extArgs, extResult, extScope>>

concurrentVars == <<threads, raceFault>>

cacheVars == <<externalMap, internalMap, externalFunctions, internalFunctions,
               pythonMethods, pluginsMap, jitCount, objCount>>

CacheState == [externalMap |-> externalMap, internalMap |-> internalMap,
               externalFunctions |-> externalFunctions,
               internalFunctions |-> internalFunctions,
               jitCount |-> jitCount, objCount |-> objCount]

EmptyMap == [x \in {} |-> NullObj]

\* std::unordered_map::emplace: inserts only when the key is absent
Emplace(map, key, value) ==
    IF key \in DOMAIN map THEN map ELSE map @@ (key :> value)

\* mutant: the lookup never finds an entry
FindExternal_Miss(emap, funcAddr) == NullObj

FindExternal(emap, funcAddr) ==
    IF funcAddr \in DOMAIN emap THEN emap[funcAddr] ELSE NullObj

FindInternal(imap, object) ==
    IF object \in DOMAIN imap THEN imap[object] ELSE NullAddr

\* mutant: only the callable -> address direction is registered
AddToFunctionsMap_InternalOnly(c, funcAddr, object) ==
    [c EXCEPT !.internalMap = Emplace(c.internalMap, object, funcAddr)]

AddToFunctionsMap(c, funcAddr, object) ==
    [c EXCEPT !.externalMap = Emplace(c.externalMap, funcAddr, object),
              !.internalMap = Emplace(c.internalMap, object, funcAddr)]

\* The result of one cache call: the cache afterwards, the value returned,
\* whether the call succeeded, the exception it set, whether it generated a wrapper.
CacheResult(c, ok, value, err, created) ==
    [cache |-> c, ok |-> ok, value |-> value, err |-> err, created |-> created]

\* mutant: the wrapper is put in the list before its code is tested
GetOrCreateFunctionObject_KeepsFailed(c, method, funcAddr, jitOk, newOk) ==
    LET found == FindExternal(c.externalMap, funcAddr)
        c1 == [c EXCEPT !.jitCount = @ + 1,
                        !.externalFunctions = Append(@, [function |-> JitAddr(c.jitCount + 1),
                                                         object |-> NullObj])]
        object == PyCFunction(c.objCount + 1)
    IN IF found # NullObj THEN CacheResult(c, TRUE, found, "", FALSE)
       ELSE IF ~jitOk \/ ~newOk THEN CacheResult(c1, FALSE, NullObj, "RuntimeError", FALSE)
       ELSE CacheResult(AddToFunctionsMap(
                            [c EXCEPT !.jitCount = @ + 1, !.objCount = @ + 1,
                                      !.externalFunctions = Append(@,
                                          [function |-> JitAddr(c.jitCount + 1),
                                           object |-> object])],
                            funcAddr, object), TRUE, object, "", TRUE)

\* jitOk: Function::GetJitFunc produced code; newOk: PyCFunction_New succeeded
GetOrCreateFunctionObject(c, method, funcAddr, jitOk, newOk) ==
    LET found == FindExternal(c.externalMap, funcAddr) IN
    IF found # NullObj THEN CacheResult(c, TRUE, found, "", FALSE)
    ELSE IF ~jitOk THEN CacheResult(c, FALSE, NullObj, "RuntimeError", FALSE)
    ELSE IF ~newOk THEN CacheResult(c, FALSE, NullObj, "RuntimeError", FALSE)
    ELSE LET methodAddr == JitAddr(c.jitCount + 1)
             object == PyCFunction(c.objCount + 1)
             c1 == [c EXCEPT !.jitCount = @ + 1, !.objCount = @ + 1,
                             !.externalFunctions = Append(@,
                                 [function |-> methodAddr, object |-> object])]
         IN CacheResult(AddToFunctionsMap(c1, funcAddr, object), TRUE, object, "", TRUE)

\* GetOrCreateFunctionValue after its None check (lines 2868-2890).
\* jitOk: CreateInternalCall produced code
WrapScriptCallable(c, method, object, jitOk) ==
    IF ~PyFunction_Check(object)
    THEN CacheResult(c, FALSE, NullAddr, "TypeError", FALSE)
    ELSE LET found == FindInternal(c.internalMap, object) IN
         IF found # NullAddr THEN CacheResult(c, TRUE, found, "", FALSE)
         ELSE IF ~jitOk THEN CacheResult(c, FALSE, NullAddr, "RuntimeError", FALSE)
         ELSE LET funcAddr == JitAddr(c.jitCount + 1)
                  c1 == [c EXCEPT !.jitCount = @ + 1,
                                  !.internalFunctions = Append(@,
                                      [function |-> funcAddr, object |-> object])]
              IN CacheResult(AddToFunctionsMap(c1, funcAddr, object), TRUE, funcAddr, "", TRUE)

\* mutant: the None check is missing
GetOrCreateFunctionValue_NoNoneCheck(c, method, object, jitOk) ==
    WrapScriptCallable(c, method, object, jitOk)

GetOrCreateFunctionValue(c, method, object, jitOk) ==
    IF object = Py_None THEN CacheResult(c, TRUE, NullAddr, "", FALSE)
    ELSE WrapScriptCallable(c, method, object, jitOk)

(***************************************************************************)
(* Plugin load: each exported method is resolved to a script callable and   *)
(* given an inbound trampoline; the pair is registered in the cache.        *)
(***************************************************************************)
ExportKinds == {"function", "classmethod", "missing", "notfunction"}
\* what method.funcName resolves to in the plugin module, and whether the JIT succeeds
Exports ==
    {[kind |-> "function", fn |-> f, jitOk |-> TRUE] : f \in 1..NumFunctions}
        \cup {[kind |-> "function", fn |-> 1, jitOk |-> FALSE]}
        \cup {[kind |-> k, fn |-> 1, jitOk |-> TRUE] : k \in ExportKinds \ {"function"}}
ExportLists == UNION {[1..n -> Exports] : n \in 0..MaxExports}

\* GenerateMethodExport: the callable the trampoline closes over, or an error.
\* made: bound methods created so far in this load
GenerateMethodExport(export, objects) ==
    IF export.kind = "missing" THEN [ok |-> FALSE, func |-> NullObj, bound |-> FALSE]
    ELSE IF export.kind = "notfunction" THEN [ok |-> FALSE, func |-> NullObj, bound |-> FALSE]
    ELSE LET isMethod == export.kind = "classmethod"
             \* IsStaticMethod is false of every object that passed PyFunction_Check
             func == IF isMethod THEN PyMethod(objects + 1) ELSE PyFunction(export.fn)
         IN [ok |-> export.jitOk, func |-> func, bound |-> isMethod]

\* the methodsHolders built by the export loop: <<ok, holders, objects>>
RECURSIVE ExportLoop(_, _, _, _)
ExportLoop(exports, i, holders, objects) ==
    IF i > Len(exports) THEN [ok |-> TRUE, holders |-> holders, objects |-> objects]
    ELSE LET g == GenerateMethodExport(exports[i], objects)
             objects1 == IF g.bound THEN objects + 1 ELSE objects
         IN IF g.ok
            THEN LET rest == ExportLoop(exports, i + 1,
                                 Append(holders, [pythonFunction |-> g.func]), objects1)
                 IN rest
            ELSE LET rest == ExportLoop(exports, i + 1, holders, objects1)
                 IN [rest EXCEPT !.ok = FALSE]

\* the registration loop at the end of OnPluginLoad
RECURSIVE RegisterLoop(_, _, _)
RegisterLoop(c, holders, i) ==
    IF i > Len(holders) THEN c
    ELSE LET methodAddr == JitAddr(c.jitCount + 1)
             c1 == [c EXCEPT !.jitCount = @ + 1]
         IN RegisterLoop(AddToFunctionsMap(c1, methodAddr, holders[i].pythonFunction),
                         holders, i + 1)

(***************************************************************************)
(* Script value -> native value.  A conversion takes the pending exception  *)
(* of the interpreter (err, "" when clear) and yields: whether it produced  *)
(* a value, the value, the pending exception afterwards, and whether the    *)
(* process died inside it.                                                  *)
(***************************************************************************)
Value(value, err) == [ok |-> TRUE, value |-> value, err |-> err, fatal |-> FALSE]
Fail(err) == [ok |-> FALSE, value |-> Unwritten, err |-> err, fatal |-> FALSE]
Fault(err) == [ok |-> FALSE, value |-> Unwritten, err |-> err, fatal |-> TRUE]

IsSurrogate(cp) == cp >= 55296 /\ cp <= 57343

\* the UTF-8 bytes of one code point
Utf8(cp) ==
    IF cp < 128 THEN <<cp>>
    ELSE IF cp < 2048 THEN <<192 + (cp \div 64), 128 + (cp % 64)>>
    ELSE IF cp < 65536
         THEN <<224 + (cp \div 4096), 128 + ((cp \div 64) % 64), 128 + (cp % 64)>>
    ELSE <<240 + (cp \div 262144), 128 + ((cp \div 4096) % 64),
           128 + ((cp \div 64) % 64), 128 + (cp % 64)>>

RECURSIVE Utf8String(_)
Utf8String(s) == IF s = <<>> THEN <<>> ELSE Utf8(Head(s)) \o Utf8String(Tail(s))

\* PyUnicode_AsUTF8AndSize: a str holding a lone surrogate has no UTF-8 form;
\* the call returns NULL, leaves size 0 and sets UnicodeEncodeError
PyUnicode_AsUTF8AndSize(object) ==
    IF \E i \in 1..Len(object.s) : IsSurrogate(object.s[i])
    THEN [buffer |-> "NULL", bytes |-> <<>>]
    ELSE [buffer |-> "utf8", bytes |-> Utf8String(object.s)]

ValueFromObject_bool(object, err) ==
    IF PyBool_Check(object) THEN Value(Scalar(object.n), err) ELSE Fail("TypeError")

ValueFromObject_char(object, err) ==
    IF PyUnicode_Check(object) /\ Len(object.s) = 0 THEN Value(Scalar(0), err)
    ELSE IF PyUnicode_Check(object) /\ Len(object.s) = 1
    THEN LET utf8 == PyUnicode_AsUTF8AndSize(object) IN
         \* PyUnicode_AsUTF8(object)[0] reads through the null pointer
         IF utf8.buffer = "NULL" THEN Fault("UnicodeEncodeError")
         ELSE IF utf8.bytes[1] < 128 THEN Value(Scalar(utf8.bytes[1]), err)
         ELSE Fail("TypeError")
    ELSE Fail("TypeError")

\* std::mbrtoc16 in a UTF-8 locale: the bytes consumed for the first code unit,
\* 0 for the null character (and for a null buffer)
Mbrtoc16(utf8) ==
    IF utf8.buffer = "NULL" \/ utf8.bytes = <<0>> THEN 0 ELSE Len(utf8.bytes)

ValueFromObject_char16_t(object, err) ==
    IF PyUnicode_Check(object) /\ Len(object.s) = 0 THEN Value(Scalar(0), err)
    ELSE IF PyUnicode_Check(object) /\ Len(object.s) = 1
    THEN IF Mbrtoc16(PyUnicode_AsUTF8AndSize(object)) \in {1, 2, 3}
         THEN Value(Scalar(object.s[1]), err)
         ELSE Fail("TypeError")
    ELSE Fail("TypeError")

\* the sign and magnitude of an integer, script or native
Limbs(a) == <<0, 0, 0, a \div 65536, a % 65536>>
Big(x) ==
    IF x.s # <<>> THEN [sign |-> x.n, limbs |-> x.s]
    ELSE IF x.n < 0 THEN [sign |-> -1, limbs |-> Limbs(-x.n)]
    ELSE [sign |-> 1, limbs |-> Limbs(x.n)]
MagLess(a, b) == \E i \in 1..5 : a[i] < b[i] /\ \A j \in 1..(i - 1) : a[j] = b[j]
BigLeq(x, y) ==
    CASE x.sign < 0 /\ y.sign > 0 -> TRUE
      [] x.sign > 0 /\ y.sign < 0 -> FALSE
      [] x.sign > 0 /\ y.sign > 0 -> ~MagLess(y.limbs, x.limbs)
      [] x.sign < 0 /\ y.sign < 0 -> ~MagLess(x.limbs, y.limbs)
Pos(limbs) == [sign |-> 1, limbs |-> limbs]
Neg(limbs) == [sign |-> -1, limbs |-> limbs]

\* std::numeric_limits<T>::min() and max() of the integer types
NumericLimits ==
    [Int8 |-> <<Neg(Limbs(128)), Pos(Limbs(127))>>,
     Int16 |-> <<Neg(Limbs(32768)), Pos(Limbs(32767))>>,
     Int32 |-> <<Neg(<<0, 0, 0, 32768, 0>>), Pos(<<0, 0, 0, 32767, 65535>>)>>,
     Int64 |-> <<Neg(<<0, 32768, 0, 0, 0>>), Pos(<<0, 32767, 65535, 65535, 65535>>)>>,
     UInt8 |-> <<Pos(Limbs(0)), Pos(Limbs(255))>>,
     UInt16 |-> <<Pos(Limbs(0)), Pos(Limbs(65535))>>,
     UInt32 |-> <<Pos(Limbs(0)), Pos(<<0, 0, 0, 65535, 65535>>)>>,
     UInt64 |-> <<Pos(Limbs(0)), Pos(<<0, 65535, 65535, 65535, 65535>>)>>]

Between(low, x, high) == BigLeq(low, x) /\ BigLeq(x, high)

\* the CType of the ConvertFunc of each type: PyLong_AsLong and
\* PyLong_AsUnsignedLong for the types of at most 32 bits (a long of 64 bits;
\* a long of 32 bits holds the same types), PyLong_AsLongLong and
\* PyLong_AsUnsignedLongLong for the types of 64 bits.  The ConvertFunc sets
\* OverflowError for an int outside its CType.
ConvertFuncLimits(type) ==
    IF type \in {"Int8", "Int16", "Int32", "Int64"}
    THEN NumericLimits["Int64"] ELSE NumericLimits["UInt64"]

InLimits(type, x) == Between(NumericLimits[type][1], x, NumericLimits[type][2])

\* the native integer with the value of the int object
IntegerOf(object) == NVal("scalar", object.n, object.s, <<>>)

\* a pending exception of any origin makes the conversion fail, as does the
\* OverflowError of the ConvertFunc; OverflowError is set for a value outside
\* the limits of the type; every failure ends in TypeError "Not integer"
ValueFromNumberObject(type, object, err) ==
    IF /\ PyLong_Check(object)
       /\ err = ""
       /\ Between(ConvertFuncLimits(type)[1], Big(object), ConvertFuncLimits(type)[2])
       /\ InLimits(type, Big(object))
    THEN Value(IntegerOf(object), err)
    ELSE Fail("TypeError")

\* a - b for magnitudes a >= b, digit by digit from the least significant
RECURSIVE MagSub(_, _, _, _)
MagSub(a, b, i, borrow) ==
    IF i = 0 THEN <<>>
    ELSE LET digit == a[i] - b[i] - borrow IN
         IF digit < 0 THEN Append(MagSub(a, b, i - 1, 1), digit + 65536)
         ELSE Append(MagSub(a, b, i - 1, 0), digit)

\* PyLong_AsVoidPtr: a negative int goes through PyLong_AsLongLong and is
\* cast to the pointer (2^64 + v), any other int through
\* PyLong_AsUnsignedLongLong
PyLong_AsVoidPtr(object) ==
    LET x == Big(object) IN
    IF x.sign < 0
    THEN IF BigLeq(NumericLimits["Int64"][1], x)
         THEN [ok |-> TRUE,
               value |-> WideScalar(1, MagSub(<<1, 0, 0, 0, 0>>, x.limbs, 5, 0))]
         ELSE [ok |-> FALSE, value |-> Unwritten]
    ELSE IF BigLeq(x, NumericLimits["UInt64"][2])
         THEN [ok |-> TRUE, value |-> IntegerOf(object)]
         ELSE [ok |-> FALSE, value |-> Unwritten]

ValueFromObject_voidptr(object, err) ==
    IF PyLong_Check(object) /\ err = "" /\ PyLong_AsVoidPtr(object).ok
    THEN Value(PyLong_AsVoidPtr(object).value, err)
    ELSE Fail("TypeError")

ValueFromObject_float(object, err) ==
    IF PyFloat_Check(object) THEN Value(Scalar(object.n), err) ELSE Fail("TypeError")

\* the result of PyUnicode_AsUTF8AndSize is not tested: on NULL the string is
\* built from an empty range and the exception stays pending
ValueFromObject_string(object, err) ==
    IF PyUnicode_Check(object)
    THEN LET utf8 == PyUnicode_AsUTF8AndSize(object) IN
         IF utf8.buffer = "NULL" THEN Value(StdString(<<>>), "UnicodeEncodeError")
         ELSE Value(StdString(utf8.bytes), err)
    ELSE Fail("TypeError")

\* attr: the position of the attribute among x, y, z, w
GetObjectAttrAsValue(object, attr, err) ==
    IF attr > Len(object.v) THEN Fail("AttributeError")
    ELSE ValueFromObject_float(object.v[attr], err)

\* Vector2ValueFromObject, Vector3ValueFromObject, Vector4ValueFromObject
VectorValueFromObject(type, object, err) ==
    IF object.k # type THEN Fail("TypeError")
    ELSE LET n == VectorSize[type]
             attrs == [i \in 1..n |-> GetObjectAttrAsValue(object, i, err)]
             failed == {i \in 1..n : ~attrs[i].ok}
         IN IF failed = {} THEN Value(Aggregate(type, [i \in 1..n |-> attrs[i].value]), err)
            ELSE attrs[CHOOSE i \in failed : \A j \in failed : i <= j]

RECURSIVE Matrix4x4Rows(_, _, _, _)
Matrix4x4Rows(rows, i, data, err) ==
    IF i > 4 THEN Value(Aggregate("Matrix4x4", data), err)
    ELSE LET row == rows[i] IN
         IF ~PyList_CheckExact(row) \/ Len(row.v) # 4 THEN Fail("ValueError")
         ELSE IF \E j \in 1..4 : ~PyFloat_Check(row.v[j]) THEN Fail("TypeError")
         ELSE Matrix4x4Rows(rows, i + 1,
                            data \o [j \in 1..4 |-> Scalar(row.v[j].n)], err)

Matrix4x4ValueFromObject(object, err) ==
    IF object.k # "Matrix4x4" THEN Fail("TypeError")
    ELSE IF Len(object.v) = 0 THEN Fail("AttributeError")
    ELSE LET elements == object.v[1] IN
         IF ~PyList_CheckExact(elements) \/ Len(elements.v) # 4 THEN Fail("ValueError")
         ELSE Matrix4x4Rows(elements.v, 1, <<>>, err)

\* ValueFromObject<T> for the value type T of every non-array, non-function type
ValueFromObject(type, object, err) ==
    CASE type = "Bool" -> ValueFromObject_bool(object, err)
      [] type = "Char8" -> ValueFromObject_char(object, err)
      [] type = "Char16" -> ValueFromObject_char16_t(object, err)
      [] type \in IntegerTypes -> ValueFromNumberObject(type, object, err)
      [] type = "Pointer" -> ValueFromObject_voidptr(object, err)
      [] type \in {"Float", "Double"} -> ValueFromObject_float(object, err)
      [] type = "String" -> ValueFromObject_string(object, err)
      [] type \in VectorTypes -> VectorValueFromObject(type, object, err)
      [] type = "Matrix4x4" -> Matrix4x4ValueFromObject(object, err)

RECURSIVE ArrayLoop(_, _, _, _, _)
\* one turn of the loop, once element i is converted
ArrayStep(type, items, i, array, value) ==
    IF value.ok THEN ArrayLoop(type, items, i + 1, Append(array, value.value), value.err)
    ELSE value

ArrayLoop(type, items, i, array, err) ==
    IF i > Len(items) THEN Value(StdVector(array), err)
    ELSE ArrayStep(type, items, i, array, ValueFromObject(type, items[i], err))

\* ArrayFromObject<T>: type is the value type of the elements
ArrayFromObject(type, arrayObject, err) ==
    IF ~PyList_Check(arrayObject) THEN Fail("TypeError")
    ELSE ArrayLoop(type, arrayObject.v, 1, <<>>, err)

(***************************************************************************)
(* Native value -> script value.  A creation yields the object, NullObj on  *)
(* failure, and the exception it set ("" when it set none).                 *)
(***************************************************************************)
Created(object) == [object |-> object, err |-> ""]
NotCreated(err) == [object |-> NullObj, err |-> err]

IsContinuation(byte) == byte >= 128 /\ byte < 192

\* the strict UTF-8 decoder of PyUnicode_FromStringAndSize
RECURSIVE DecodeUtf8(_, _)
DecodeUtf8(bytes, s) ==
    IF bytes = <<>> THEN [ok |-> TRUE, s |-> s]
    ELSE LET b == bytes
             n == Len(bytes)
             two == (b[1] - 192) * 64 + (b[2] - 128)
             three == (b[1] - 224) * 4096 + (b[2] - 128) * 64 + (b[3] - 128)
             four == (b[1] - 240) * 262144 + (b[2] - 128) * 4096
                        + (b[3] - 128) * 64 + (b[4] - 128)
         IN IF b[1] < 128 THEN DecodeUtf8(Tail(b), Append(s, b[1]))
            ELSE IF b[1] >= 194 /\ b[1] < 224 /\ n >= 2 /\ IsContinuation(b[2])
            THEN DecodeUtf8(SubSeq(b, 3, n), Append(s, two))
            ELSE IF /\ b[1] >= 224 /\ b[1] < 240 /\ n >= 3
                    /\ IsContinuation(b[2]) /\ IsContinuation(b[3])
                    /\ three >= 2048 /\ ~IsSurrogate(three)
            THEN DecodeUtf8(SubSeq(b, 4, n), Append(s, three))
            ELSE IF /\ b[1] >= 240 /\ b[1] < 245 /\ n >= 4
                    /\ IsContinuation(b[2]) /\ IsContinuation(b[3]) /\ IsContinuation(b[4])
                    /\ four >= 65536 /\ four <= 1114111
            THEN DecodeUtf8(SubSeq(b, 5, n), Append(s, four))
            ELSE [ok |-> FALSE, s |-> <<>>]

PyUnicode_FromStringAndSize(bytes) ==
    LET decoded == DecodeUtf8(bytes, <<>>) IN
    IF decoded.ok THEN Created(PyUnicode(decoded.s)) ELSE NotCreated("UnicodeDecodeError")

CreatePyObject_char(value) ==
    IF value.n = 0 THEN Created(PyUnicode(<<>>))
    ELSE PyUnicode_FromStringAndSize(<<value.n>>)

\* std::c16rtomb in a UTF-8 locale: a leading surrogate is kept in the state and
\* yields no byte, a trailing surrogate with no leading one is an error
CreatePyObject_char16_t(value) ==
    IF value.n = 0 THEN Created(PyUnicode(<<>>))
    ELSE IF value.n >= 56320 /\ value.n <= 57343 THEN NotCreated("")
    ELSE IF value.n >= 55296 /\ value.n <= 56319 THEN PyUnicode_FromStringAndSize(<<>>)
    ELSE PyUnicode_FromStringAndSize(Utf8(value.n))

\* CreateVector2Object, CreateVector3Object, CreateVector4Object: the geometry
\* class is called with the fields in the order x, y, z, w
CreateVectorObject(type, vector) ==
    Created(PyVector(type, [i \in 1..Len(vector.v) |-> PyFloat(vector.v[i].n)]))

\* the Matrix4x4 class is called with one list of the 16 floats, which it keeps
\* as its attribute "elements"
CreateMatrix4x4Object(matrix) ==
    Created(PyMatrix4x4(PyList([i \in 1..Len(matrix.v) |-> PyFloat(matrix.v[i].n)])))

\* CreatePyObject<T> for the value type T of every non-array, non-function type
CreatePyObject(type, value) ==
    CASE type = "Bool" -> Created(PyBool(value.n # 0))
      [] type = "Char8" -> CreatePyObject_char(value)
      [] type = "Char16" -> CreatePyObject_char16_t(value)
      [] type \in IntegerTypes \cup {"Pointer"} -> Created(SObj("int", value.n, value.s, <<>>))
      [] type \in {"Float", "Double"} -> Created(PyFloat(value.n))
      [] type = "String" -> PyUnicode_FromStringAndSize(value.s)
      [] type \in VectorTypes -> CreateVectorObject(type, value)
      [] type = "Matrix4x4" -> CreateMatrix4x4Object(value)

\* CreatePyObjectList<T>: type is the value type of the elements
CreatePyObjectList(type, arrayArg) ==
    LET size == Len(arrayArg.v)
        items == [i \in 1..size |-> CreatePyObject(type, arrayArg.v[i])]
        failed == {i \in 1..size : items[i].object = NullObj}
    IN IF failed = {} THEN Created(PyList([i \in 1..size |-> items[i].object]))
       ELSE NotCreated(items[CHOOSE i \in failed : \A j \in failed : i <= j].err)

(***************************************************************************)
(* The call frame of one inbound call: the argument slots (the hidden       *)
(* return storage first when the return type has one), the return register, *)
(* the interpreter's pending exception, what was printed to stderr, whether *)
(* the process was terminated, and the function identity cache.             *)
(***************************************************************************)
Frame(params, cache) ==
    [params |-> params, ret |-> Unwritten, err |-> "", fatal |-> FALSE,
     stderr |-> <<>>, cache |-> cache]

GetArgument(st, index) == st.params[index + 1]
SetArgument(st, index, value) == [st EXCEPT !.params[index + 1] = value]
SetReturnPtr(st, value) == [st EXCEPT !.ret = value]

ZeroAggregate(type) ==
    Aggregate(type, [i \in 1..(IF type = "Matrix4x4" THEN 16 ELSE VectorSize[type]) |-> Scalar(0)])

SetFallbackReturn(plat, retType, st) ==
    CASE retType = "Void" -> st
      [] retType \in WordTypes -> SetReturnPtr(st, Scalar(0))
      [] retType = "String" -> SetArgument(st, 0, StdString(<<>>))
      [] retType = "Function" -> SetReturnPtr(st, NullAddr)
      [] retType \in ArrayTypes \ {"ArrayBool"} -> SetArgument(st, 0, StdVector(<<>>))
      [] retType = "Vector2" -> SetReturnPtr(st, ZeroAggregate(retType))
      [] retType \in {"Vector3", "Vector4"} ->
            IF plat = "windows"
            THEN SetReturnPtr(SetArgument(st, 0, ZeroAggregate(retType)), ReturnParam)
            ELSE SetReturnPtr(st, ZeroAggregate(retType))
      [] retType = "Matrix4x4" ->
            SetReturnPtr(SetArgument(st, 0, ZeroAggregate(retType)), ReturnParam)
      [] OTHER -> [st EXCEPT !.fatal = TRUE]     \* default: std::terminate()

\* the conversion SetReturn and SetRefParam apply to a value of a type that is
\* neither Void nor Function
FromObject(type, object, err) ==
    IF type \in ArrayTypes THEN ArrayFromObject(ElementType[type], object, err)
    ELSE ValueFromObject(type, object, err)

Done(ok, st) == [ok |-> ok, st |-> st]

\* the exception and the fault a conversion leaves in the frame
Converted(st, value) == [st EXCEPT !.err = value.err, !.fatal = value.fatal]

\* SetReturn once the value is converted: where the value of each type goes
StoreReturn(plat, type, value, st) ==
    IF ~value.ok THEN Done(FALSE, Converted(st, value))
    ELSE IF IsObject(type) THEN Done(TRUE, SetArgument(Converted(st, value), 0, value.value))
    ELSE IF type = "Matrix4x4" \/ (plat = "windows" /\ type \in {"Vector3", "Vector4"})
    THEN Done(TRUE, SetReturnPtr(SetArgument(Converted(st, value), 0, value.value),
                                 ReturnParam))
    ELSE Done(TRUE, SetReturnPtr(Converted(st, value), value.value))

\* SetReturn of a Function once GetOrCreateFunctionValue has answered
StoreFunctionReturn(r, st) ==
    IF r.ok THEN Done(TRUE, SetReturnPtr([st EXCEPT !.cache = r.cache], r.value))
    ELSE Done(FALSE, [st EXCEPT !.cache = r.cache, !.err = r.err])

\* jitOk: CreateInternalCall produces code for a callable not yet wrapped
SetReturn(plat, result, retType, st, jitOk) ==
    IF retType.type = "Void" THEN Done(TRUE, st)
    ELSE IF retType.type = "Function"
    THEN StoreFunctionReturn(GetOrCreateFunctionValue(st.cache, "prototype", result, jitOk), st)
    ELSE IF retType.type \in ValueTypes
    THEN StoreReturn(plat, retType.type, FromObject(retType.type, result, st.err), st)
    ELSE Done(FALSE, [st EXCEPT !.fatal = TRUE])     \* default: std::terminate()

\* *param = *value
AssignRefParam(value, st, index) ==
    IF value.ok THEN Done(TRUE, SetArgument(Converted(st, value), index, value.value))
    ELSE Done(FALSE, Converted(st, value))

\* the assignment of the Matrix4x4 case, through a Vector2 pointer: the first
\* two floats of the matrix are overwritten
AssignVector2ToMatrix4x4(value, st, index) ==
    IF value.ok
    THEN Done(TRUE, SetArgument(Converted(st, value), index,
             [GetArgument(st, index) EXCEPT
                 !.v = value.value.v \o SubSeq(@, 3, Len(@))]))
    ELSE Done(FALSE, Converted(st, value))

\* the Matrix4x4 case converts with ValueFromObject<Vector2>
SetRefParam(object, paramType, st, index) ==
    IF paramType.type = "Matrix4x4"
    THEN AssignVector2ToMatrix4x4(ValueFromObject("Vector2", object, st.err), st, index)
    ELSE IF paramType.type \in ValueTypes \ {"Void", "Function"}
    THEN AssignRefParam(FromObject(paramType.type, object, st.err), st, index)
    ELSE Done(FALSE, [st EXCEPT !.fatal = TRUE])     \* default: std::terminate()

Arg(object, st) == [object |-> object, st |-> st]

\* the object created for an argument and the exception its creation set
CreatedArg(r, st) == Arg(r.object, [st EXCEPT !.err = r.err])

\* the conversion of the native value in a slot, common to ParamToObject and
\* ParamRefToObject
SlotToObject(type, st, index) ==
    IF type \in ArrayTypes
    THEN CreatedArg(CreatePyObjectList(ElementType[type], GetArgument(st, index)), st)
    ELSE CreatedArg(CreatePyObject(type, GetArgument(st, index)), st)

FunctionArg(r, st) == Arg(r.value, [st EXCEPT !.cache = r.cache, !.err = r.err])

\* jitOk: the outbound trampoline is generated; newOk: PyCFunction_New succeeds
ParamToObject(paramType, st, index, jitOk, newOk) ==
    IF paramType.type = "Function"
    THEN FunctionArg(GetOrCreateFunctionObject(st.cache, "prototype",
                                               GetArgument(st, index), jitOk, newOk), st)
    ELSE IF paramType.type \in ValueTypes \ {"Void"}
    THEN SlotToObject(paramType.type, st, index)
    ELSE Arg(NullObj, [st EXCEPT !.fatal = TRUE])    \* default: std::terminate()

ParamRefToObject(paramType, st, index) ==
    IF paramType.type \in ValueTypes \ {"Void", "Function"}
    THEN SlotToObject(paramType.type, st, index)
    ELSE Arg(NullObj, [st EXCEPT !.fatal = TRUE])    \* default: std::terminate()

\* the loop of InternalCall that fills argTuple; index counts from 0
RECURSIVE ArgLoop(_, _, _, _, _, _, _)
\* one turn of the loop, once the argument is converted
ArgStep(method, arg, paramsStartIndex, index, argTuple, jitOk, newOk) ==
    IF arg.st.fatal \/ arg.object = NullObj
    THEN [processResult |-> IF arg.st.err # "" THEN "ErrorWithException" ELSE "Error",
          argTuple |-> argTuple, st |-> arg.st]
    ELSE ArgLoop(method, arg.st, paramsStartIndex, index + 1,
                 Append(argTuple, arg.object), jitOk, newOk)

ArgLoop(method, st, paramsStartIndex, index, argTuple, jitOk, newOk) ==
    IF index >= Len(method.paramTypes)
    THEN [processResult |-> "NoError", argTuple |-> argTuple, st |-> st]
    ELSE IF method.paramTypes[index + 1].ref
    THEN ArgStep(method,
                 ParamRefToObject(method.paramTypes[index + 1], st, paramsStartIndex + index),
                 paramsStartIndex, index, argTuple, jitOk, newOk)
    ELSE ArgStep(method,
                 ParamToObject(method.paramTypes[index + 1], st, paramsStartIndex + index,
                               jitOk, newOk),
                 paramsStartIndex, index, argTuple, jitOk, newOk)

\* PyErr_Print: prints and clears the pending exception, if there is one
PyErr_Print(st) ==
    IF st.err = "" THEN st ELSE [st EXCEPT !.stderr = Append(@, st.err), !.err = ""]

\* the write-back loop of InternalCall; index and k count from 0
RECURSIVE RefLoop(_, _, _, _, _, _)
\* one turn of the loop, once SetRefParam has returned r
RefStep(method, result, r, paramsStartIndex, index, k) ==
    IF r.ok \/ r.st.fatal
    THEN RefLoop(method, result, r.st, paramsStartIndex, index + 1, k + 1)
    ELSE RefLoop(method, result, PyErr_Print(r.st), paramsStartIndex, index + 1, k + 1)

RefLoop(method, result, st, paramsStartIndex, index, k) ==
    IF index >= Len(method.paramTypes) \/ st.fatal THEN st
    ELSE IF ~method.paramTypes[index + 1].ref
    THEN RefLoop(method, result, st, paramsStartIndex, index + 1, k)
    ELSE RefStep(method, result,
                 SetRefParam(result.v[1 + k + 1], method.paramTypes[index + 1], st,
                             paramsStartIndex + index),
                 paramsStartIndex, index, k)

\* what InternalCall leaves behind: the frame, whether the callable was called
\* and with which arguments, and the return statement it left through
Left(st, invoked, argTuple, path) ==
    [st |-> st, invoked |-> invoked, argTuple |-> argTuple, path |-> path]

\* the error exits of InternalCall: the exception is printed, the fallback set
LeftWithFallback(plat, method, st, invoked, argTuple, path) ==
    Left(SetFallbackReturn(plat, method.retType.type, PyErr_Print(st)),
         invoked, argTuple, path)

\* InternalCall once SetReturn has returned r
AfterSetReturn(plat, method, r, argTuple) ==
    IF r.ok \/ r.st.fatal THEN Left(r.st, TRUE, argTuple, "return")
    ELSE LeftWithFallback(plat, method, r.st, TRUE, argTuple, "return fallback")

\* InternalCall once the reference parameters are written back
AfterRefParams(plat, method, returnObject, st, argTuple, jitOk) ==
    IF st.fatal THEN Left(st, TRUE, argTuple, "write back")
    ELSE AfterSetReturn(plat, method,
                        SetReturn(plat, returnObject, method.retType, st, jitOk), argTuple)

RefParamsCount(method) ==
    Cardinality({i \in 1..Len(method.paramTypes) : method.paramTypes[i].ref})

\* InternalCall once the callable has returned result
AfterCall(plat, method, paramsStartIndex, refParamsCount, st, argTuple, result, jitOk) ==
    IF result = NullObj
    THEN LeftWithFallback(plat, method, [st EXCEPT !.err = "Exception"],
                          TRUE, argTuple, "raised")
    ELSE IF refParamsCount # 0 /\ ~PyTuple_CheckExact(result)
    THEN LeftWithFallback(plat, method, [st EXCEPT !.err = "TypeError"],
                          TRUE, argTuple, "not tuple")
    ELSE IF refParamsCount # 0 /\ Len(result.v) # 1 + refParamsCount
    THEN LeftWithFallback(plat, method, [st EXCEPT !.err = "TypeError"],
                          TRUE, argTuple, "wrong size")
    ELSE IF refParamsCount # 0
    THEN AfterRefParams(plat, method, result.v[1],
                        RefLoop(method, result, st, paramsStartIndex, 0, 0), argTuple, jitOk)
    ELSE AfterRefParams(plat, method, result, st, argTuple, jitOk)

\* InternalCall once the argument loop has ended
AfterArgs(plat, method, paramsStartIndex, args, result, jitOk) ==
    IF args.st.fatal THEN Left(args.st, FALSE, args.argTuple, "argument")
    ELSE IF args.processResult # "NoError"
    THEN LeftWithFallback(plat, method, args.st, FALSE, args.argTuple, "argument")
    ELSE AfterCall(plat, method, paramsStartIndex, RefParamsCount(method),
                   args.st, args.argTuple, result, jitOk)

ParamsStartIndex(plat, method) == IF IsHiddenParam(plat, method.retType.type) THEN 1 ELSE 0

\* result: what PyObject_CallObject(func, argTuple) returns, NullObj when the
\* callable raises
InternalCall(plat, method, params, cache, result, jitOk, newOk) ==
    AfterArgs(plat, method, ParamsStartIndex(plat, method),
              ArgLoop(method, Frame(params, cache), ParamsStartIndex(plat, method),
                      0, <<>>, jitOk, newOk),
              result, jitOk)

(***************************************************************************)
(* The inbound calls of the model: the methods, the native argument values  *)
(* the caller passes and the objects the script callable returns.           *)
(***************************************************************************)
Int32Param == Property("Int32", FALSE)
Int32Ref == Property("Int32", TRUE)
StringRef == Property("String", TRUE)
Matrix4x4Ref == Property("Matrix4x4", TRUE)

NoRefParamLists == {<<>>, <<Property("Char8", FALSE)>>, <<Int32Param>>}
RefParamLists ==
    {<<Int32Param, Int32Ref>>, <<Int32Ref, StringRef>>, <<Matrix4x4Ref>>,
     <<Int32Ref, Property("Char8", FALSE)>>}
RefRetTypes == {"Void", "Int32", "String", "ArrayBool"}
Methods ==
    {Method(t, p) : t \in ValueTypes, p \in NoRefParamLists}
        \cup {Method(t, p) : t \in RefRetTypes, p \in RefParamLists}
        \cup {Method(t, <<Property("Function", FALSE)>>) : t \in {"Void", "Function"}}

HasRefParams(m) == \E i \in 1..Len(m.paramTypes) : m.paramTypes[i].ref
UsesFunction(m) ==
    m.retType.type = "Function" \/ \E i \in 1..Len(m.paramTypes) : m.paramTypes[i].type = "Function"

\* native values of the non-array types: a byte that is not ASCII and a
\* trailing surrogate are among the characters
ElementValues(type) ==
    CASE type = "Bool" -> {Scalar(1)}
      [] type = "Char8" -> {Scalar(65), Scalar(200)}
      [] type = "Char16" -> {Scalar(65), Scalar(56320)}
      [] type \in IntegerTypes \cup {"Pointer"} -> {Scalar(41)}
      [] type \in {"Float", "Double"} -> {Scalar(3)}
      [] type = "String" -> {StdString(<<66>>)}
      [] type = "Function" -> NativeFunctions
      [] type \in VectorTypes -> {Aggregate(type, [i \in 1..VectorSize[type] |-> Scalar(i)])}
      [] type = "Matrix4x4" -> {Aggregate(type, [i \in 1..16 |-> Scalar(i)])}
      [] OTHER -> {Unwritten}

NativeValues(type) ==
    IF type \in ArrayTypes
    THEN {StdVector(<<>>)} \cup {StdVector(<<e>>) : e \in ElementValues(ElementType[type])}
    ELSE ElementValues(type)

RECURSIVE ArgumentLists(_)
ArgumentLists(paramTypes) ==
    IF paramTypes = <<>> THEN {<<>>}
    ELSE {<<value>> \o rest : value \in NativeValues(Head(paramTypes).type),
                              rest \in ArgumentLists(Tail(paramTypes))}

\* the slots the trampoline hands to InternalCall: storage for the return
\* value first, not yet constructed, when the return type needs it
Parameters(plat, m) ==
    {(IF IsHiddenParam(plat, m.retType.type) THEN <<Unwritten>> ELSE <<>>) \o args :
        args \in ArgumentLists(m.paramTypes)}

LoneSurrogate == PyUnicode(<<55296>>)
\* a Matrix4x4 whose "elements" are four rows of four floats
WellFormedMatrix ==
    PyMatrix4x4(PyList([i \in 1..4 |-> PyList([j \in 1..4 |-> PyFloat(20 + 4 * (i - 1) + j)])]))
ScriptValues ==
    {Py_None, PyBool(TRUE), PyLong(7), PyLong(42), PyLong(300), PyLong(-1), PyLongWide(1, <<1, 0, 0, 0, 0>>),
     PyFloat(2), PyUnicode(<<65>>),
     LoneSurrogate, PyList(<<PyBool(TRUE)>>), PyList(<<PyLong(7), PyLong(7)>>),
     PyList(<<PyFloat(2)>>),
     PyList(<<PyUnicode(<<65>>)>>), PyVector("Vector2", <<PyFloat(1), PyFloat(2)>>),
     PyVector("Vector3", <<PyFloat(1), PyFloat(2), PyFloat(3)>>),
     PyVector("Vector4", <<PyFloat(1), PyFloat(2), PyFloat(3), PyFloat(4)>>),
     WellFormedMatrix, PyTuple(<<PyLong(7), PyLong(7)>>)} \cup ScriptFunctions
\* 2^63 is among the elements
TupleElements ==
    {Py_None, PyLong(7), LoneSurrogate, WellFormedMatrix, PyLongWide(1, <<0, 32768, 0, 0, 0>>)}
Tuples == {PyTuple(s) : s \in UNION {[1..n -> TupleElements] : n \in 0..MaxTupleLen}}

\* what the script callable can do: raise (NullObj) or return an object
Results(m) == {NullObj} \cup ScriptValues \cup (IF HasRefParams(m) THEN Tuples ELSE {})

(***************************************************************************)
(* Outbound calls: a script caller enters the trampoline of a native        *)
(* function.  The call scope holds the arguments pushed to the call VM, the *)
(* heap temporaries with their ValueType tags and the aggregate descriptor; *)
(* with it travel the interpreter's pending exception, the cache, and the   *)
(* log of what was allocated, converted, called, read and released.         *)
(***************************************************************************)
Event(kind, index, type) == [kind |-> kind, index |-> index, type |-> type]
Temporary(value, type) == [value |-> value, type |-> type]
\* an argument of the call VM: a value, or the address of temporary number index
DcArg(value, index) == [value |-> value, index |-> index]

\* ArgsScope::ArgsScope
ArgsScope(cache) ==
    [vm |-> <<>>, storage |-> <<>>, ag |-> "none", err |-> "", fatal |-> FALSE,
     cache |-> cache, pushed |-> <<>>, invoked |-> FALSE, ret |-> Unwritten,
     log |-> <<Event("dcNewCallVM", 0, "Void")>>]

\* the native type ~ArgsScope deletes a temporary as, by its tag
DeletedAs(type) == IF type = "ArrayInt8" THEN "ArrayInt16" ELSE type

RECURSIVE DeleteStorage(_, _)
DeleteStorage(a, i) ==
    IF i > Len(a.storage) THEN a
    ELSE DeleteStorage([a EXCEPT !.log = Append(@, Event("delete", i, DeletedAs(a.storage[i].type)))],
                       i + 1)

FreeAggr(a) ==
    IF a.ag # "none" THEN [a EXCEPT !.log = Append(@, Event("dcFreeAggr", 0, a.ag))] ELSE a

FreeVM(a) == [a EXCEPT !.log = Append(@, Event("dcFree", 0, "Void"))]

\* ArgsScope::~ArgsScope
DestroyArgsScope(a) == FreeVM(FreeAggr(DeleteStorage(a, 1)))

\* a.storage.emplace_back(value, type); dcArgPointer(a.vm, value)
EmplaceBack(a, value, type) ==
    [a EXCEPT !.storage = Append(@, Temporary(value, type)),
              !.vm = Append(@, DcArg(Unwritten, Len(a.storage) + 1)),
              !.log = Append(@, Event("new", Len(a.storage) + 1, type))]

NewAggr(a, type) ==
    [a EXCEPT !.ag = type, !.log = Append(@, Event("dcNewAggr", 0, type))]

BeginExternalCall(method, a) ==
    CASE method.retType.type = "String" -> EmplaceBack(a, StdString(<<>>), "String")
      [] method.retType.type \in ArrayTypes -> EmplaceBack(a, StdVector(<<>>), method.retType.type)
      [] method.retType.type \in VectorTypes \cup {"Matrix4x4"} -> NewAggr(a, method.retType.type)
      [] OTHER -> a

\* ValueFromObject<T>, ArrayFromObject<T> for the T the outbound path uses:
\* uintptr_t is the unsigned integer of 64 bits
ToNative(type, pItem, err) ==
    CASE type = "Pointer" -> ValueFromNumberObject("UInt64", pItem, err)
      [] type = "ArrayPointer" -> ArrayFromObject("UInt64", pItem, err)
      [] OTHER -> FromObject(type, pItem, err)

Pushed(ok, a) == [ok |-> ok, a |-> a]

NotPushed(a, err, fatal) == Pushed(FALSE, [a EXCEPT !.err = err, !.fatal = fatal])

\* dcArgBool .. dcArgDouble, dcArgPointer of a converted value
PushValue(a, value) ==
    IF value.ok
    THEN Pushed(TRUE, [a EXCEPT !.vm = Append(@, DcArg(value.value, 0)),
                                !.pushed = Append(@, value.value),
                                !.err = value.err])
    ELSE NotPushed(a, value.err, value.fatal)

\* CreateValue<T>, CreateArray<T> and the emplace of the temporary
PushTemporary(a, type, value) ==
    IF value.ok
    THEN Pushed(TRUE, [EmplaceBack(a, value.value, type)
                         EXCEPT !.pushed = Append(@, value.value), !.err = value.err])
    ELSE NotPushed(a, value.err, value.fatal)

PushFunction(a, r) ==
    IF r.ok
    THEN Pushed(TRUE, [a EXCEPT !.vm = Append(@, DcArg(r.value, 0)),
                                !.pushed = Append(@, r.value),
                                !.cache = r.cache, !.err = r.err])
    ELSE NotPushed([a EXCEPT !.cache = r.cache], r.err, FALSE)

Converting(a, index, type) == [a EXCEPT !.log = Append(@, Event("convert", index, type))]

\* jitOk: the inbound trampoline of a script function is generated
PushObjectAsParam(paramType, pItem, a, jitOk) ==
    CASE paramType.type \in WordTypes ->
            PushValue(a, ToNative(paramType.type, pItem, a.err))
      [] paramType.type = "Function" ->
            PushFunction(a, GetOrCreateFunctionValue(a.cache, "prototype", pItem, jitOk))
      [] paramType.type \in {"String", "Matrix4x4"} \cup ArrayTypes \cup VectorTypes ->
            PushTemporary(a, paramType.type, ToNative(paramType.type, pItem, a.err))
      [] OTHER -> NotPushed(a, "TypeError", FALSE)

PushObjectAsRefParam(paramType, pItem, a) ==
    IF paramType.type \in ValueTypes \ {"Void", "Function"}
    THEN PushTemporary(a, paramType.type, ToNative(paramType.type, pItem, a.err))
    ELSE NotPushed(a, "TypeError", FALSE)

\* the temporary a parameter's argument points to
TemporaryOf(a, paramsStartIndex, i) == a.vm[paramsStartIndex + i].index

\* The native function runs: it stores what it returns by hidden parameter
\* in the first temporary and, when it writes, a new value through every
\* reference parameter.
RECURSIVE NativeWrites(_, _, _, _, _, _)
NativeWrites(method, a, paramsStartIndex, native, i, k) ==
    IF i > Len(method.paramTypes) THEN a
    ELSE IF ~method.paramTypes[i].ref
    THEN NativeWrites(method, a, paramsStartIndex, native, i + 1, k)
    ELSE NativeWrites(method,
                      [a EXCEPT !.storage[TemporaryOf(a, paramsStartIndex, i)].value = native.out[k]],
                      paramsStartIndex, native, i + 1, k + 1)

NativeReturns(method, a, native) ==
    IF IsObject(method.retType.type)
    THEN [a EXCEPT !.storage[1].value = native.ret] ELSE a

Invoked(method, a, native) ==
    [a EXCEPT !.invoked = TRUE, !.ret = native.ret,
              !.log = Append(@, Event("call", 0, method.retType.type))]

NativeCall(method, a, native) ==
    IF native.writes
    THEN NativeWrites(method, NativeReturns(method, Invoked(method, a, native), native),
                      IF IsObject(method.retType.type) THEN 1 ELSE 0, native, 1, 1)
    ELSE NativeReturns(method, Invoked(method, a, native), native)

Returned(object, a) == [object |-> object, a |-> a]

\* a creation that fails sets its exception, when it sets one
ReturnCreated(r, a) ==
    Returned(r.object, [a EXCEPT !.err = IF r.err # "" THEN r.err ELSE a.err])

ReturnFunction(r, a) ==
    Returned(r.value, [a EXCEPT !.cache = r.cache, !.err = IF r.ok THEN a.err ELSE r.err])

\* the conversion of what the native function returned; a is the scope after
\* the call
ReturnToObject(method, a, native, jitOk, newOk) ==
    CASE method.retType.type = "Void" -> Returned(Py_None, a)
      [] method.retType.type = "Function" ->
            ReturnFunction(GetOrCreateFunctionObject(a.cache, "prototype", native.ret,
                                                     jitOk, newOk), a)
      [] method.retType.type = "String" ->
            ReturnCreated(CreatePyObject("String", a.storage[1].value), a)
      [] method.retType.type \in ArrayTypes ->
            ReturnCreated(CreatePyObjectList(ElementType[method.retType.type],
                                             a.storage[1].value), a)
      [] method.retType.type \in ValueTypes \ {"Void", "Function"} ->
            ReturnCreated(CreatePyObject(method.retType.type, native.ret), a)
      [] OTHER -> Returned(NullObj, [a EXCEPT !.err = "TypeError"])

MakeExternalCall(method, a, native, jitOk, newOk) ==
    ReturnToObject(method, NativeCall(method, a, native), native, jitOk, newOk)

\* the value read through the pointer of temporary index + 1 as type: the
\* temporary's value when it was allocated as that type, and whatever the
\* bytes of another type give (garbage) when it was not
StorageValue(type, a, index, garbage) ==
    IF a.storage[index + 1].type = type THEN a.storage[index + 1].value ELSE garbage

StorageValueToObject(paramType, a, index, garbage) ==
    IF paramType.type \in ArrayTypes
    THEN CreatePyObjectList(ElementType[paramType.type],
                            StorageValue(paramType.type, a, index, garbage))
    ELSE CreatePyObject(paramType.type, StorageValue(paramType.type, a, index, garbage))

\* mutant: the scope is destroyed only when the call succeeds
Dispatched_LeakOnFailure(object, a, scoped) ==
    [object |-> object,
     a |-> IF scoped /\ ~a.fatal /\ object # NullObj THEN DestroyArgsScope(a) ELSE a]

\* what the dispatcher hands back: the object for the script caller (NullObj
\* with the exception pending) and the scope, destroyed unless the process died
Dispatched(object, a, scoped) ==
    [object |-> object, a |-> IF scoped /\ ~a.fatal THEN DestroyArgsScope(a) ELSE a]

DispatchedReturn(r) == Dispatched(r.object, r.a, TRUE)

ExternalCallNoArgs(method, cache, native, jitOk, newOk) ==
    DispatchedReturn(MakeExternalCall(method, BeginExternalCall(method, ArgsScope(cache)),
                                      native, jitOk, newOk))

RECURSIVE ReadBackLoop(_, _, _, _, _, _)
ReadBackStep(method, a, items, i, j, garbage, value) ==
    IF value.object = NullObj
    THEN Dispatched(NullObj, [a EXCEPT !.err = IF value.err # "" THEN value.err ELSE a.err],
                    TRUE)
    ELSE ReadBackLoop(method, a, Append(items, value.object), i + 1, j + 1, garbage)

\* the loop over the reference parameters; items: the tuple so far, j: the
\* index into the storage
ReadBackLoop(method, a, items, i, j, garbage) ==
    IF i > Len(method.paramTypes) \/ Len(items) >= 1 + RefParamsCount(method)
    THEN Dispatched(PyTuple(items), a, TRUE)
    ELSE IF ~method.paramTypes[i].ref
    THEN ReadBackLoop(method, a, items, i + 1, j, garbage)
    ELSE ReadBackStep(method,
                      [a EXCEPT !.log = Append(@, Event("read", j + 1, method.paramTypes[i].type))],
                      items, i, j, garbage,
                      StorageValueToObject(method.paramTypes[i], a, j, garbage[i]))

AfterMakeExternalCall(method, r, garbage) ==
    IF r.object = NullObj THEN Dispatched(NullObj, r.a, TRUE)
    ELSE IF RefParamsCount(method) # 0
    THEN ReadBackLoop(method, r.a, <<r.object>>, 1,
                      IF IsObject(method.retType.type) THEN 1 ELSE 0, garbage)
    ELSE Dispatched(r.object, r.a, TRUE)

RECURSIVE PushLoop(_, _, _, _, _, _, _, _)
PushStep(method, args, p, i, native, jitOk, newOk, garbage) ==
    IF ~p.ok THEN Dispatched(NullObj, p.a, TRUE)
    ELSE PushLoop(method, args, p.a, i + 1, native, jitOk, newOk, garbage)

PushLoop(method, args, a, i, native, jitOk, newOk, garbage) ==
    IF i > Len(args)
    THEN AfterMakeExternalCall(method, MakeExternalCall(method, a, native, jitOk, newOk), garbage)
    ELSE PushStep(method, args,
                  IF method.paramTypes[i].ref
                  THEN PushObjectAsRefParam(method.paramTypes[i], args[i],
                                            Converting(a, i, method.paramTypes[i].type))
                  ELSE PushObjectAsParam(method.paramTypes[i], args[i],
                                         Converting(a, i, method.paramTypes[i].type), jitOk),
                  i, native, jitOk, newOk, garbage)

\* the scope of a call that left before the scope was constructed
NoArgsScope(cache, err) ==
    [ArgsScope(cache) EXCEPT !.err = err, !.log = <<>>]

PyTuple_Check(object) == object.k = "tuple"

\* mutant: the length is compared once the scope is set up
ExternalCall_LateSizeCheck(method, args, cache, native, jitOk, newOk, garbage) ==
    IF ~PyTuple_Check(args) \/ Len(args.v) # Len(method.paramTypes)
    THEN Dispatched(NullObj,
                    [BeginExternalCall(method, ArgsScope(cache)) EXCEPT !.err = "TypeError"], TRUE)
    ELSE PushLoop(method, args.v, BeginExternalCall(method, ArgsScope(cache)), 1,
                  native, jitOk, newOk, garbage)

\* args: the object the interpreter passes as the argument tuple
ExternalCall(method, args, cache, native, jitOk, newOk, garbage) ==
    IF ~PyTuple_Check(args)
    THEN Dispatched(NullObj, NoArgsScope(cache, "TypeError"), FALSE)
    ELSE IF Len(args.v) # Len(method.paramTypes)
    THEN Dispatched(NullObj, NoArgsScope(cache, "TypeError"), FALSE)
    ELSE PushLoop(method, args.v, BeginExternalCall(method, ArgsScope(cache)), 1,
                  native, jitOk, newOk, garbage)

(***************************************************************************)
(* The outbound calls of the model: the methods, the argument tuples of the *)
(* script caller and what the native function does.                         *)
(***************************************************************************)
StringParam == Property("String", FALSE)

\* methods without parameters go through ExternalCallNoArgs
NoArgsRetTypes ==
    {"Void", "Int32", "Char8", "Char16", "String", "ArrayInt8", "ArrayChar8", "Vector2", "Function"}
OneParamTypes ==
    IntegerTypes \cup {"Pointer", "Char8", "Char16", "String", "ArrayInt8", "ArrayInt32",
                       "ArrayChar8", "ArrayString", "Matrix4x4", "Function"}
\* the types with a ValueFromObject and a CreatePyObject over one machine word
ScalarTypes == IntegerTypes \cup {"Bool", "Char8", "Char16", "Pointer"}
\* the parameters no case of PushObjectAsParam, PushObjectAsRefParam names
UnhandledParams == {Property("Void", FALSE), Property("Void", TRUE), Property("Function", TRUE)}
OutboundMethods ==
    {Method(t, <<>>) : t \in NoArgsRetTypes}
        \cup {Method("Void", <<Property(t, FALSE)>>) : t \in OneParamTypes}
        \cup {Method("Void", <<Property(t, TRUE)>>) : t \in ScalarTypes \cup {"ArrayInt8"}}
        \cup {Method("Void", <<StringParam, Int32Param>>),
              Method("Int32", <<StringParam, Int32Ref>>),
              Method("Void", <<StringParam, StringRef>>),
              Method("Int32", <<Int32Param, Int32Ref>>),
              Method("String", <<Int32Ref, StringRef>>),
              Method("Vector2", <<Int32Ref, Int32Ref>>)}
        \cup {Method("Void", <<p>>) : p \in UnhandledParams}

\* 2^31, 2^32, 2^63 and 2^64 and their neighbours
WideIntegers ==
    {PyLongWide(1, <<0, 0, 0, 32768, 0>>), PyLongWide(-1, <<0, 0, 0, 32768, 0>>),
     PyLongWide(-1, <<0, 0, 0, 32768, 1>>),
     PyLongWide(1, <<0, 0, 0, 65535, 65535>>), PyLongWide(1, <<0, 0, 1, 0, 0>>),
     PyLongWide(1, <<0, 32767, 65535, 65535, 65535>>), PyLongWide(1, <<0, 32768, 0, 0, 0>>),
     PyLongWide(-1, <<0, 32768, 0, 0, 0>>), PyLongWide(-1, <<0, 32768, 0, 0, 1>>),
     PyLongWide(1, <<0, 65535, 65535, 65535, 65535>>), PyLongWide(1, <<1, 0, 0, 0, 0>>)}
SmallIntegers ==
    {PyLong(i) : i \in {-32769, -32768, -129, -128, -1, 0, 127, 128, 255, 256,
                        32767, 32768, 65535, 65536, 2147483647}}
\* "", "AB", "\0", U+00E9, U+20AC, U+1F600 and a trailing surrogate alone
Strings ==
    {PyUnicode(<<>>), PyUnicode(<<65, 66>>), PyUnicode(<<0>>), PyUnicode(<<233>>),
     PyUnicode(<<8364>>), PyUnicode(<<128512>>), PyUnicode(<<56320>>)}
\* [7, 7, "A"], [7, 300], ["A", "\ud800"] and ["\ud800"]
Lists ==
    {PyList(<<PyLong(7), PyLong(7), PyUnicode(<<65>>)>>), PyList(<<PyLong(7), PyLong(300)>>),
     PyList(<<PyUnicode(<<65>>), LoneSurrogate>>), PyList(<<LoneSurrogate>>)}
\* the script objects made from the native matrices
CreatedMatrices == {CreateMatrix4x4Object(m).object : m \in NativeValues("Matrix4x4")}
ArgumentObjects ==
    ScriptValues \cup WideIntegers \cup SmallIntegers \cup Strings \cup Lists \cup CreatedMatrices
PairObjects == {Py_None, PyLong(7), PyUnicode(<<65>>), LoneSurrogate}

\* the tuples the interpreter passes to a METH_VARARGS function
MaxArgs == 2
ArgumentTuples ==
    {PyTuple(<<>>)} \cup {PyTuple(<<x>>) : x \in ArgumentObjects}
        \cup {PyTuple(s) : s \in UNION {[1..n -> PairObjects] : n \in 2..(MaxArgs + 1)}}

RECURSIVE RefTypes(_)
RefTypes(paramTypes) ==
    IF paramTypes = <<>> THEN <<>>
    ELSE (IF Head(paramTypes).ref THEN <<Head(paramTypes)>> ELSE <<>>) \o RefTypes(Tail(paramTypes))

\* what the native function returns and whether and what it writes through
\* its reference parameters
NativeBehaviours(m) ==
    {[ret |-> ret, writes |-> writes, out |-> out] :
        ret \in (IF m.retType.type = "Void" THEN {Unwritten} ELSE NativeValues(m.retType.type)),
        writes \in (IF HasRefParams(m) THEN BOOLEAN ELSE {FALSE}),
        out \in ArgumentLists(RefTypes(m.paramTypes))}

\* what a read of a reference parameter through a pointer to a temporary of
\* another type can give, for every parameter
RECURSIVE Garbage(_)
Garbage(paramTypes) ==
    IF paramTypes = <<>> THEN {<<>>}
    ELSE {<<value>> \o rest :
            value \in (IF Head(paramTypes).ref THEN NativeValues(Head(paramTypes).type)
                       ELSE {Unwritten}),
            rest \in Garbage(Tail(paramTypes))}

\* no outbound call has been made
NoExternalCall ==
    /\ extPc = "script"
    /\ extMethod = Method("Void", <<>>)
    /\ extArgs = PyTuple(<<>>)
    /\ extResult = NullObj
    /\ extScope = NoArgsScope(CacheState, "")

\* the threads that can call into the module
Threads == 1..NumThreads
\* a thread outside the module
IdleThread ==
    [pc |-> "idle", op |-> "none", key |-> NullAddr, wrapper |-> <<>>, ok |-> TRUE,
     value |-> NullAddr]
\* no thread has entered the module
NoThreads ==
    /\ threads = [t \in Threads |-> IdleThread]
    /\ raceFault = FALSE

\* no inbound call has been made
NoInternalCall ==
    /\ pc = "native"
    /\ calledMethod = Method("Void", <<>>)
    /\ nativeParams = <<>>
    /\ slots = <<>>
    /\ retReg = Unwritten
    /\ pyErr = ""
    /\ printed = <<>>
    /\ terminated = FALSE
    /\ called = FALSE
    /\ passed = <<>>
    /\ returned = NullObj
    /\ exitPath = ""

NothingNoted == <<"none", NullAddr, NullAddr>>

NoCacheCall == [op |-> "none", key |-> NullAddr, ok |-> TRUE, value |-> NullAddr,
                err |-> "", created |-> FALSE]

InitCache ==
    /\ externalMap = EmptyMap
    /\ internalMap = EmptyMap
    /\ externalFunctions = <<>>
    /\ internalFunctions = <<>>
    /\ pythonMethods = <<>>
    /\ pluginsMap = {}
    /\ jitCount = 0
    /\ objCount = 0
    /\ last = NoCacheCall
    /\ noted = NothingNoted
    /\ platform = "linux"
    /\ NoInternalCall
    /\ NoExternalCall
    /\ NoThreads

SetCache(c) ==
    /\ externalMap' = c.externalMap
    /\ internalMap' = c.internalMap
    /\ externalFunctions' = c.externalFunctions
    /\ internalFunctions' = c.internalFunctions
    /\ jitCount' = c.jitCount
    /\ objCount' = c.objCount

\* loadable: the entry point resolves to a Plugin subclass that can be instantiated
OnPluginLoad(plugin, exports, loadable) ==
    LET loop == ExportLoop(exports, 1, <<>>, objCount)
        ok == loadable /\ plugin \notin pluginsMap /\ loop.ok
        c0 == [CacheState EXCEPT !.objCount = loop.objects]
        c1 == RegisterLoop(c0, loop.holders, 1)
    IN /\ c1.jitCount <= MaxJit
       /\ IF ok
          THEN /\ SetCache(c1)
               /\ pluginsMap' = pluginsMap \cup {plugin}
               /\ pythonMethods' = pythonMethods \o
                     [i \in 1..Len(loop.holders) |->
                         [jitFunction |-> JitAddr(jitCount + i),
                          pythonFunction |-> loop.holders[i].pythonFunction]]
          ELSE UNCHANGED cacheVars
       /\ last' = [op |-> "OnPluginLoad", key |-> NullAddr, ok |-> ok, value |-> NullAddr,
                   err |-> "", created |-> ok /\ Len(loop.holders) > 0]
       /\ UNCHANGED noted
       /\ UNCHANGED inboundVars
       /\ UNCHANGED outboundVars
       /\ UNCHANGED concurrentVars

\* Addresses the host can hand over as function pointers: null, native functions,
\* and the inbound trampolines of script callables (exported or wrapped on demand).
\* The C entry point of an outbound wrapper is not a function pointer of any
\* method signature and is never passed back.
KnownAddresses ==
    {NullAddr} \cup NativeFunctions
        \cup {pythonMethods[i].jitFunction : i \in 1..Len(pythonMethods)}
        \cup {internalFunctions[i].function : i \in 1..Len(internalFunctions)}

KnownObjects ==
    {Py_None, PyLong(7)} \cup ScriptFunctions
        \cup {o \in DOMAIN internalMap : o.k \in {"method", "builtin_function_or_method"}}

CallGetOrCreateFunctionObject(method, funcAddr, jitOk, newOk) ==
    LET r == GetOrCreateFunctionObject(CacheState, method, funcAddr, jitOk, newOk)
    IN /\ r.cache.jitCount <= MaxJit
       /\ SetCache(r.cache)
       /\ last' = [op |-> "GetOrCreateFunctionObject", key |-> funcAddr, ok |-> r.ok,
                   value |-> r.value, err |-> r.err, created |-> r.created]
       /\ noted' \in {noted} \cup
                      (IF r.ok THEN {<<"GetOrCreateFunctionObject", funcAddr, r.value>>} ELSE {})
       /\ UNCHANGED <<pythonMethods, pluginsMap>>
       /\ UNCHANGED inboundVars
       /\ UNCHANGED outboundVars
       /\ UNCHANGED concurrentVars

CallGetOrCreateFunctionValue(method, object, jitOk) ==
    LET r == GetOrCreateFunctionValue(CacheState, method, object, jitOk)
    IN /\ r.cache.jitCount <= MaxJit
       /\ SetCache(r.cache)
       /\ last' = [op |-> "GetOrCreateFunctionValue", key |-> object, ok |-> r.ok,
                   value |-> r.value, err |-> r.err, created |-> r.created]
       /\ noted' \in {noted} \cup
                      (IF r.ok THEN {<<"GetOrCreateFunctionValue", object, r.value>>} ELSE {})
       /\ UNCHANGED <<pythonMethods, pluginsMap>>
       /\ UNCHANGED inboundVars
       /\ UNCHANGED outboundVars
       /\ UNCHANGED concurrentVars

NextCache ==
    \/ \E plugin \in PluginNames, loadable \in BOOLEAN :
          \* the descriptor's exports are read only once the plugin class is instantiated
          \E exports \in (IF loadable /\ plugin \notin pluginsMap THEN ExportLists ELSE {<<>>}) :
             OnPluginLoad(plugin, exports, loadable)
    \/ \E method \in MethodNames, funcAddr \in KnownAddresses, jitOk, newOk \in BOOLEAN :
          CallGetOrCreateFunctionObject(method, funcAddr, jitOk, newOk)
    \/ \E method \in MethodNames, object \in KnownObjects, jitOk \in BOOLEAN :
          CallGetOrCreateFunctionValue(method, object, jitOk)

vars == <<externalMap, internalMap, externalFunctions, internalFunctions,
          pythonMethods, pluginsMap, jitCount, objCount, last, noted,
          platform, pc, calledMethod, nativeParams, slots, retReg, pyErr, printed,
          terminated, called, passed, returned, exitPath,
          extPc, extMethod, extArgs, extResult, extScope, threads, raceFault>>

SpecCache == InitCache /\ [][NextCache]_vars

(***************************************************************************)
(* One inbound call: native code enters the trampoline of a script callable *)
(* and InternalCall runs to its end.                                        *)
(***************************************************************************)
InitInbound ==
    /\ externalMap = EmptyMap
    /\ internalMap = EmptyMap
    /\ externalFunctions = <<>>
    /\ internalFunctions = <<>>
    /\ pythonMethods = <<>>
    /\ pluginsMap = {}
    /\ jitCount = 0
    /\ objCount = 0
    /\ last = NoCacheCall
    /\ noted = NothingNoted
    /\ platform \in Platforms
    /\ NoInternalCall
    /\ NoExternalCall
    /\ NoThreads

\* the state in which InternalCall leaves the frame and the cache
Leave(m, params, result, out) ==
    /\ out.st.cache.jitCount <= MaxJit
    /\ pc' = "returned"
    /\ calledMethod' = m
    /\ nativeParams' = params
    /\ slots' = out.st.params
    /\ retReg' = out.st.ret
    /\ pyErr' = out.st.err
    /\ printed' = out.st.stderr
    /\ terminated' = out.st.fatal
    /\ called' = out.invoked
    /\ passed' = out.argTuple
    /\ returned' = IF out.invoked THEN result ELSE NullObj
    /\ exitPath' = out.path
    /\ SetCache(out.st.cache)
    /\ UNCHANGED <<pythonMethods, pluginsMap, last, noted, platform>>
    /\ UNCHANGED outboundVars
    /\ UNCHANGED concurrentVars

CallInternalCall(m, params, result, jitOk, newOk) ==
    /\ pc = "native"
    /\ Leave(m, params, result,
             InternalCall(platform, m, params, CacheState, result, jitOk, newOk))

NextInbound ==
    \E m \in Methods :
       \E params \in Parameters(platform, m), result \in Results(m),
          jitOk, newOk \in (IF UsesFunction(m) THEN BOOLEAN ELSE {TRUE}) :
             CallInternalCall(m, params, result, jitOk, newOk)

SpecInbound == InitInbound /\ [][NextInbound]_vars

(***************************************************************************)
(* Threads in GetOrCreateFunctionObject and GetOrCreateFunctionValue.  The  *)
(* functions take no lock: between the lookup, the generation of the        *)
(* wrapper and its registration another thread can run.                     *)
(***************************************************************************)
InitConcurrent ==
    /\ externalMap = EmptyMap
    /\ internalMap = EmptyMap
    /\ externalFunctions = <<>>
    /\ internalFunctions = <<>>
    /\ pythonMethods = <<>>
    /\ pluginsMap = {}
    /\ jitCount = 0
    /\ objCount = 0
    /\ last = NoCacheCall
    /\ noted = NothingNoted
    /\ platform = "linux"
    /\ NoInternalCall
    /\ NoExternalCall
    /\ NoThreads

\* what a thread's step leaves alone
ThreadFrame ==
    /\ UNCHANGED <<pythonMethods, pluginsMap, last, noted>>
    /\ UNCHANGED inboundVars
    /\ UNCHANGED outboundVars

\* the thread leaves the function with a value, or with an exception
ThreadDone(t, ok, value) ==
    threads' = [threads EXCEPT ![t].pc = "done", ![t].ok = ok, ![t].value = value]

\* a thread calls GetOrCreateFunctionObject (op "object", key an address) or
\* GetOrCreateFunctionValue (op "value", key a script object)
ThreadEnter(t, op, key) ==
    /\ threads[t].pc = "idle"
    /\ threads' = [threads EXCEPT ![t].pc = "find", ![t].op = op, ![t].key = key]
    /\ UNCHANGED <<externalMap, internalMap, externalFunctions, internalFunctions,
                   jitCount, objCount, raceFault>>
    /\ ThreadFrame

\* FindExternal / the None check, PyFunction_Check and FindInternal
ThreadFind(t) ==
    /\ threads[t].pc = "find"
    /\ IF threads[t].op = "object"
       THEN IF FindExternal(externalMap, threads[t].key) # NullObj
            THEN ThreadDone(t, TRUE, FindExternal(externalMap, threads[t].key))
            ELSE threads' = [threads EXCEPT ![t].pc = "generate"]
       ELSE IF threads[t].key = Py_None THEN ThreadDone(t, TRUE, NullAddr)
            ELSE IF ~PyFunction_Check(threads[t].key) THEN ThreadDone(t, FALSE, NullAddr)
            ELSE IF FindInternal(internalMap, threads[t].key) # NullAddr
            THEN ThreadDone(t, TRUE, FindInternal(internalMap, threads[t].key))
            ELSE threads' = [threads EXCEPT ![t].pc = "generate"]
    /\ UNCHANGED <<externalMap, internalMap, externalFunctions, internalFunctions,
                   jitCount, objCount, raceFault>>
    /\ ThreadFrame

\* GetJitFunc and PyCFunction_New / CreateInternalCall: the wrapper is a local
\* of the thread until it is registered
ThreadGenerate(t, jitOk, newOk) ==
    /\ threads[t].pc = "generate"
    /\ jitCount < MaxJit
    /\ IF ~jitOk \/ (threads[t].op = "object" /\ ~newOk)
       THEN /\ ThreadDone(t, FALSE, IF threads[t].op = "object" THEN NullObj ELSE NullAddr)
            /\ UNCHANGED <<jitCount, objCount>>
       ELSE /\ jitCount' = jitCount + 1
            /\ objCount' = IF threads[t].op = "object" THEN objCount + 1 ELSE objCount
            /\ threads' = [threads EXCEPT
                  ![t].pc = "register",
                  ![t].wrapper = <<[function |-> JitAddr(jitCount + 1),
                                    object |-> IF threads[t].op = "object"
                                               THEN PyCFunction(objCount + 1)
                                               ELSE threads[t].key]>>]
    /\ UNCHANGED <<externalMap, internalMap, externalFunctions, internalFunctions, raceFault>>
    /\ ThreadFrame

\* the cache once the thread's wrapper is in the list and AddToFunctionsMap
\* has run
Registered(t) ==
    IF threads[t].op = "object"
    THEN AddToFunctionsMap([CacheState EXCEPT !.externalFunctions =
                                                 Append(@, threads[t].wrapper[1])],
                           threads[t].key, threads[t].wrapper[1].object)
    ELSE AddToFunctionsMap([CacheState EXCEPT !.internalFunctions =
                                                 Append(@, threads[t].wrapper[1])],
                           threads[t].wrapper[1].function, threads[t].key)

\* emplace_back and AddToFunctionsMap.  With another thread at its own
\* registration the writes to the containers are not ordered: a data race,
\* which may go as if the writes were ordered or may fault.
ThreadRegister(t) ==
    /\ threads[t].pc = "register"
    /\ externalMap' = Registered(t).externalMap
    /\ internalMap' = Registered(t).internalMap
    /\ externalFunctions' = Registered(t).externalFunctions
    /\ internalFunctions' = Registered(t).internalFunctions
    /\ ThreadDone(t, TRUE, IF threads[t].op = "object" THEN threads[t].wrapper[1].object
                           ELSE threads[t].wrapper[1].function)
    /\ raceFault' \in (IF \E u \in Threads \ {t} : threads[u].pc = "register"
                       THEN BOOLEAN ELSE {raceFault})
    /\ UNCHANGED <<jitCount, objCount>>
    /\ ThreadFrame

NextConcurrent ==
    \/ \E t \in Threads, key \in NativeFunctions : ThreadEnter(t, "object", key)
    \/ \E t \in Threads, key \in ScriptFunctions \cup {Py_None, PyLong(7)} :
          ThreadEnter(t, "value", key)
    \/ \E t \in Threads : ThreadFind(t)
    \/ \E t \in Threads, jitOk, newOk \in BOOLEAN : ThreadGenerate(t, jitOk, newOk)
    \/ \E t \in Threads : ThreadRegister(t)

(***************************************************************************)
(* One outbound call: the script caller enters the trampoline and           *)
(* ExternalCall or ExternalCallNoArgs runs to its end.                      *)
(***************************************************************************)
InitOutbound ==
    /\ externalMap = EmptyMap
    /\ internalMap = EmptyMap
    /\ externalFunctions = <<>>
    /\ internalFunctions = <<>>
    /\ pythonMethods = <<>>
    /\ pluginsMap = {}
    /\ jitCount = 0
    /\ objCount = 0
    /\ last = NoCacheCall
    /\ noted = NothingNoted
    /\ platform = "linux"
    /\ NoInternalCall
    /\ NoExternalCall
    /\ NoThreads

\* the state in which the dispatcher leaves the script caller and the cache
LeaveExternal(m, args, out) ==
    /\ out.a.cache.jitCount <= MaxJit
    /\ extPc' = "returned"
    /\ extMethod' = m
    /\ extArgs' = args
    /\ extResult' = out.object
    /\ extScope' = out.a
    /\ SetCache(out.a.cache)
    /\ UNCHANGED <<pythonMethods, pluginsMap, last, noted>>
    /\ UNCHANGED inboundVars
    /\ UNCHANGED concurrentVars

CallExternalCallNoArgs(m, native, jitOk, newOk) ==
    /\ extPc = "script"
    /\ m.paramTypes = <<>>
    /\ LeaveExternal(m, PyTuple(<<>>), ExternalCallNoArgs(m, CacheState, native, jitOk, newOk))

CallExternalCall(m, args, native, jitOk, newOk, garbage) ==
    /\ extPc = "script"
    /\ m.paramTypes # <<>>
    /\ LeaveExternal(m, args,
                     ExternalCall(m, args, CacheState, native, jitOk, newOk, garbage))

NextOutbound ==
    \/ \E m \in OutboundMethods :
          \E native \in NativeBehaviours(m),
             jitOk, newOk \in (IF UsesFunction(m) THEN BOOLEAN ELSE {TRUE}) :
                CallExternalCallNoArgs(m, native, jitOk, newOk)
    \/ \E m \in OutboundMethods :
          \E args \in ArgumentTuples, native \in NativeBehaviours(m),
             jitOk, newOk \in (IF UsesFunction(m) THEN BOOLEAN ELSE {TRUE}),
             garbage \in Garbage(m.paramTypes) :
                CallExternalCall(m, args, native, jitOk, newOk, garbage)

SpecOutbound == InitOutbound /\ [][NextOutbound]_vars

SpecConcurrent == InitConcurrent /\ [][NextConcurrent]_vars


(***************************************************************************)
(* Properties of the function identity cache.                               *)
(***************************************************************************)
identityVars == <<externalMap, internalMap, externalFunctions, internalFunctions, jitCount>>

\* C1: the address -> callable map and the callable -> address map are mutual
\* inverses in every reachable state: a maps to c in the first iff c maps to a
\* in the second.
C1_MapsMutualInverses ==
    /\ \A a \in DOMAIN externalMap :
          externalMap[a] \in DOMAIN internalMap /\ internalMap[externalMap[a]] = a
    /\ \A o \in DOMAIN internalMap :
          internalMap[o] \in DOMAIN externalMap /\ externalMap[internalMap[o]] = o

\* C2: a successful get-or-create call whose key was the key of an earlier
\* successful call of the same operation returns the identical value, generates
\* no trampoline and adds no entry to either map.
C2_GetOrCreateIdempotent ==
    [][(/\ last'.op \in {"GetOrCreateFunctionObject", "GetOrCreateFunctionValue"}
        /\ last'.ok
        /\ noted[1] = last'.op
        /\ noted[2] = last'.key)
       => (/\ last'.value = noted[3]
           /\ ~last'.created
           /\ UNCHANGED identityVars)]_vars

\* a wrapper created by one call is asked for again, in both directions
C2_Witness ==
    \/ /\ last.op = "GetOrCreateFunctionObject" /\ last.ok /\ ~last.created
       /\ noted = <<last.op, last.key, last.value>>
       /\ last.value.k = "builtin_function_or_method"
    \/ /\ last.op = "GetOrCreateFunctionValue" /\ last.ok /\ ~last.created
       /\ noted = <<last.op, last.key, last.value>>
       /\ \E i \in 1..Len(internalFunctions) : internalFunctions[i].function = last.value

\* C3: the callable c returned by a successful getOrCreateScriptCallable(m, addr)
\* for a native address addr converts back: getOrCreateNativeAddress(m, c)
\* succeeds and returns addr, creating nothing.
C3_NativeScriptNativeRoundTrip ==
    (/\ last.op = "GetOrCreateFunctionValue"
     /\ noted[1] = "GetOrCreateFunctionObject"
     /\ noted[2] \in NativeFunctions
     /\ last.key = noted[3])
    => (last.ok /\ last.value = noted[2] /\ ~last.created)

\* C4: the address a returned by a successful getOrCreateNativeAddress(m, f),
\* f not None, converts back: getOrCreateScriptCallable(m', a) returns f for any
\* method m', creating no outbound trampoline and adding no cache entry.
C4_ScriptNativeScriptRoundTrip ==
    [][(/\ last'.op = "GetOrCreateFunctionObject"
        /\ noted[1] = "GetOrCreateFunctionValue"
        /\ noted[2] # Py_None
        /\ last'.key = noted[3])
       => (/\ last'.ok
           /\ last'.value = noted[2]
           /\ ~last'.created
           /\ UNCHANGED identityVars)]_vars

C4_Witness ==
    /\ last.op = "GetOrCreateFunctionObject"
    /\ noted[1] = "GetOrCreateFunctionValue"
    /\ noted[2] \in ScriptFunctions
    /\ last.key = noted[3]
    /\ last.value = noted[2]

\* C5: getOrCreateNativeAddress of None succeeds with the null address and
\* changes neither map nor the lists of generated wrappers.
C5_NoneMapsToNull ==
    [][(last'.op = "GetOrCreateFunctionValue" /\ last'.key = Py_None)
       => (/\ last'.ok
           /\ last'.value = NullAddr
           /\ ~last'.created
           /\ UNCHANGED identityVars)]_vars

C5_Witness ==
    /\ last.op = "GetOrCreateFunctionValue" /\ last.key = Py_None /\ last.ok
    /\ DOMAIN externalMap # {}

(***************************************************************************)
(* Properties of the inbound dispatcher.                                    *)
(***************************************************************************)
\* the storage from which the native caller reads the returned value
ReturnTarget ==
    IF IsHiddenParam(platform, calledMethod.retType.type) THEN slots[1] ELSE retReg

\* the fallback of a return type: zero, the null function, the empty string,
\* the empty array, the aggregate of zeros
FallbackValue(type) ==
    CASE type \in WordTypes -> Scalar(0)
      [] type = "Function" -> NullAddr
      [] type = "String" -> StdString(<<>>)
      [] type \in ArrayTypes -> StdVector(<<>>)
      [] type \in VectorTypes \cup {"Matrix4x4"} -> ZeroAggregate(type)

\* the reference parameters of a method, the slot of parameter i, and the
\* element of the returned sequence that holds its new value
RefParams(m) == {i \in 1..Len(m.paramTypes) : m.paramTypes[i].ref}
ParamSlot(i) == ParamsStartIndex(platform, calledMethod) + i
NewValue(i) == returned.v[2 + Cardinality({j \in RefParams(calledMethod) : j < i})]

IsSequence(object) == object.k \in {"tuple", "list"}
\* the callable returned a sequence of exactly 1 + refCount elements
ExactSequenceReturned ==
    /\ pc = "returned" /\ called /\ returned # NullObj
    /\ HasRefParams(calledMethod)
    /\ IsSequence(returned)
    /\ Len(returned.v) = 1 + RefParamsCount(calledMethod)

\* the marshaler of the type, applied to the object alone, yields a value
Converts(type, object) == FromObject(type, object, "").ok
NativeOf(type, object) == FromObject(type, object, "").value

\* the primary return was converted from the object into the return target
ReturnConvertedFrom(object) ==
    LET type == calledMethod.retType.type IN
    (type \notin {"Void", "Function"} /\ Converts(type, object))
        => ReturnTarget = NativeOf(type, object)

FailurePaths == {"argument", "raised", "not tuple", "wrong size", "return fallback"}

\* C6: whenever InternalCall fails (an argument does not convert, the callable
\* raises, the result has the wrong shape, the return value does not convert),
\* for every return type, the process is not terminated and the return target
\* holds the fallback of the type.
C6_FailureWritesFallback ==
    (pc = "returned" /\ (terminated \/ exitPath \in FailurePaths))
    => (/\ ~terminated
        /\ calledMethod.retType.type # "Void"
              => ReturnTarget = FallbackValue(calledMethod.retType.type))

\* C7: when the method has reference parameters and the callable's result is
\* not a sequence of exactly 1 + refCount elements, no reference parameter's
\* slot is written and the return target receives the fallback of the type.
C7_ArityErrorWritesNothing ==
    (/\ pc = "returned" /\ called /\ returned # NullObj
     /\ HasRefParams(calledMethod)
     /\ ~(IsSequence(returned) /\ Len(returned.v) = 1 + RefParamsCount(calledMethod)))
    => (/\ ~terminated
        /\ \A i \in RefParams(calledMethod) : slots[ParamSlot(i)] = nativeParams[ParamSlot(i)]
        /\ calledMethod.retType.type # "Void"
              => ReturnTarget = FallbackValue(calledMethod.retType.type))

\* C8: when the callable returns a sequence of exactly 1 + refCount elements,
\* element 0 is converted into the return target and element 1 + k is written
\* into the slot of the k-th reference parameter, for every element that is a
\* value of the type it is converted to.
C8_RefWriteBack ==
    ExactSequenceReturned
    => (/\ ~terminated
        /\ ReturnConvertedFrom(returned.v[1])
        /\ \A i \in RefParams(calledMethod) :
              Converts(calledMethod.paramTypes[i].type, NewValue(i))
                 => slots[ParamSlot(i)] = NativeOf(calledMethod.paramTypes[i].type, NewValue(i)))

\* C9: when the new value of some reference parameter does not convert, that
\* parameter's slot keeps its pre-call value, every reference parameter whose
\* value converts is written, and the primary return is still converted.
C9_WriteBackBestEffort ==
    (/\ ExactSequenceReturned
     /\ PyTuple_CheckExact(returned)
     /\ \E i \in RefParams(calledMethod) :
           ~Converts(calledMethod.paramTypes[i].type, NewValue(i)))
    => (/\ ~terminated
        /\ \A i \in RefParams(calledMethod) :
              slots[ParamSlot(i)] =
                 IF Converts(calledMethod.paramTypes[i].type, NewValue(i))
                 THEN NativeOf(calledMethod.paramTypes[i].type, NewValue(i))
                 ELSE nativeParams[ParamSlot(i)]
        /\ ReturnConvertedFrom(returned.v[1]))

\* C10: when the callable returns a well-formed Matrix4x4 object as the new
\* value of a Matrix4x4 reference parameter, the write succeeds (nothing is
\* printed for it) and the slot holds the 16 elements of that matrix.
C10_MatrixRefUsesMatrixExtractor ==
    (ExactSequenceReturned /\ PyTuple_CheckExact(returned))
    => \A i \in RefParams(calledMethod) :
          (/\ calledMethod.paramTypes[i].type = "Matrix4x4"
           /\ Matrix4x4ValueFromObject(NewValue(i), "").ok)
          => (/\ slots[ParamSlot(i)] = Matrix4x4ValueFromObject(NewValue(i), "").value
              /\ printed = <<>>)

\* C11: when InternalCall leaves because the conversion of a native argument
\* to a script object failed, the script callable was never invoked, every
\* reference parameter's slot holds its pre-call value, the process was not
\* terminated and the return target holds the fallback of the return type.
C11_ArgumentFailureAbortsCall ==
    (pc = "returned" /\ exitPath = "argument")
    => (/\ ~called
        /\ ~terminated
        /\ \A i \in RefParams(calledMethod) : slots[ParamSlot(i)] = nativeParams[ParamSlot(i)]
        /\ calledMethod.retType.type # "Void"
              => ReturnTarget = FallbackValue(calledMethod.retType.type))

(***************************************************************************)
(* Properties of outbound calls.                                            *)
(***************************************************************************)
\* the events of a kind in the log of the call scope
Events(kind) == {i \in 1..Len(extScope.log) : extScope.log[i].kind = kind}
\* the parameters whose argument the dispatcher began to convert
Attempted == {extScope.log[i].index : i \in Events("convert")}
ArityMismatch ==
    /\ extPc = "returned"
    /\ extMethod.paramTypes # <<>>
    /\ Len(extArgs.v) # Len(extMethod.paramTypes)

\* C12: when the argument tuple's length differs from the number of declared
\* parameters, ExternalCall hands back a null result with an exception set,
\* having converted no argument, allocated no temporary and not invoked the
\* native function.
C12_ArityCheckedFirst ==
    ArityMismatch
    => (/\ extResult = NullObj
        /\ extScope.err # ""
        /\ Attempted = {}
        /\ Events("new") = {}
        /\ extScope.storage = <<>>
        /\ ~extScope.invoked
        /\ Events("call") = {})

\* a tuple of two arguments reached a method of one parameter
C12_Witness ==
    /\ ArityMismatch
    /\ Len(extArgs.v) = 2
    /\ Len(extMethod.paramTypes) = 1
    /\ extResult = NullObj

\* the dispatcher began to convert an argument and did not push it
PushFailed ==
    /\ extPc = "returned"
    /\ Attempted # {}
    /\ Cardinality(Attempted) > Len(extScope.pushed)
\* the temporaries allocated, and those deleted, by their index in the storage
Allocated == {extScope.log[i].index : i \in Events("new")}
Deleted == {extScope.log[i].index : i \in Events("delete")}

\* C13: when the conversion or push of an argument fails, the dispatcher
\* returns a null result, the native function is not invoked, no later
\* parameter is converted and every temporary made for the earlier ones is
\* deleted.
C13_PushFailureAbortsCall ==
    PushFailed
    => (/\ ~extScope.fatal
        /\ extResult = NullObj
        /\ ~extScope.invoked
        /\ Attempted = 1..(Len(extScope.pushed) + 1)
        /\ Allocated = 1..Len(extScope.storage)
        /\ Deleted = Allocated)

\* the i-th parameter's temporary when the dispatcher is left, and the
\* object its value converts to as the parameter's own type
TemporaryOfParam(i) ==
    extScope.storage[TemporaryOf(extScope, IF IsObject(extMethod.retType.type) THEN 1 ELSE 0, i)]
PostCallObject(i) ==
    IF extMethod.paramTypes[i].type \in ArrayTypes
    THEN CreatePyObjectList(ElementType[extMethod.paramTypes[i].type], TemporaryOfParam(i).value)
    ELSE CreatePyObject(extMethod.paramTypes[i].type, TemporaryOfParam(i).value)
\* the object the native function's return value converts to
PrimaryObject ==
    CASE extMethod.retType.type = "Void" -> Created(Py_None)
      [] extMethod.retType.type \in ArrayTypes ->
            CreatePyObjectList(ElementType[extMethod.retType.type], extScope.ret)
      [] OTHER -> CreatePyObject(extMethod.retType.type, extScope.ret)
\* the position among the reference parameters of parameter i, from 1
RefPosition(i) == Cardinality({j \in RefParams(extMethod) : j <= i})
\* the native function was invoked for a method with reference parameters and
\* its return value and every reference temporary convert to a script object
ReadBackConverts ==
    /\ extPc = "returned"
    /\ extScope.invoked
    /\ HasRefParams(extMethod)
    /\ extMethod.retType.type # "Function"
    /\ PrimaryObject.object # NullObj
    /\ \A i \in RefParams(extMethod) : PostCallObject(i).object # NullObj

\* C14: for a method with reference parameters the result of ExternalCall is
\* a tuple of 1 + refCount elements: the primary return first, then, in
\* declared order, the post-call value of each reference parameter's own
\* temporary, read as that parameter's type.
C14_ResultTupleOfReferences ==
    ReadBackConverts
    => (/\ PyTuple_CheckExact(extResult)
        /\ Len(extResult.v) = 1 + RefParamsCount(extMethod)
        /\ extResult.v[1] = PrimaryObject.object
        /\ \A i \in RefParams(extMethod) :
              extResult.v[1 + RefPosition(i)] = PostCallObject(i).object)

\* the events of a kind that concern temporary number index
EventsOf(kind, index) == {i \in Events(kind) : extScope.log[i].index = index}
\* the dispatcher returned from a call for which it constructed a scope
ScopeLeft ==
    /\ extPc = "returned"
    /\ ~extScope.fatal
    /\ Events("dcNewCallVM") # {}
Releases == Events("delete") \cup Events("dcFreeAggr") \cup Events("dcFree")

\* C15: when a dispatcher that constructed a call scope returns, every
\* temporary of the scope was allocated once and deleted once, the aggregate
\* descriptor, if one was made, and the call VM were freed once, and every
\* release comes after the native call and after every read of a reference
\* temporary.
C15_ScopeReleasedOnEveryExit ==
    ScopeLeft
    => (/\ \A index \in 1..Len(extScope.storage) :
              /\ Cardinality(EventsOf("new", index)) = 1
              /\ Cardinality(EventsOf("delete", index)) = 1
        /\ Deleted \subseteq 1..Len(extScope.storage)
        /\ Cardinality(Events("dcFreeAggr")) = Cardinality(Events("dcNewAggr"))
        /\ Cardinality(Events("dcNewAggr")) = (IF extScope.ag = "none" THEN 0 ELSE 1)
        /\ Cardinality(Events("dcFree")) = 1
        /\ \A r \in Releases : \A e \in Events("call") \cup Events("read") : e < r)

\* a push failed after a temporary was made, and the temporary was deleted
C15_Witness ==
    /\ ScopeLeft
    /\ PushFailed
    /\ Len(extScope.storage) = 1
    /\ Cardinality(EventsOf("delete", 1)) = 1

\* C16: every temporary is deleted as the native type it was allocated as
\* for its ValueType tag.
C16_DiscriminatedFree ==
    ScopeLeft
    => \A d \in Events("delete") :
          /\ extScope.log[d].type = extScope.storage[extScope.log[d].index].type
          /\ \A n \in EventsOf("new", extScope.log[d].index) :
                extScope.log[n].type = extScope.log[d].type

\* the conversion of the argument of parameter i produced a value
PushSucceeded(i) == i <= Len(extScope.pushed)
\* the object is a script integer within the limits of the type
IntegerInRange(type, object) == PyLong_Check(object) /\ InLimits(type, Big(object))
\* the parameters of an integer type whose argument the dispatcher converted
IntegerParamsAttempted == {i \in Attempted : extMethod.paramTypes[i].type \in IntegerTypes}

\* C17: the conversion of an argument to an integer type succeeds with
\* exactly the integer's value when the argument is a script integer within
\* [min, max] of the type, and fails for every other argument.
C17_IntegerConversionExact ==
    extPc = "returned"
    => \A i \in IntegerParamsAttempted :
          IF IntegerInRange(extMethod.paramTypes[i].type, extArgs.v[i])
          THEN PushSucceeded(i) /\ extScope.pushed[i] = IntegerOf(extArgs.v[i])
          ELSE ~PushSucceeded(i)

\* the reference parameters of an integer type whose new value is a script
\* integer outside the limits of the type
OutOfRangeRefs ==
    {i \in RefParams(calledMethod) :
        /\ calledMethod.paramTypes[i].type \in IntegerTypes
        /\ PyLong_Check(NewValue(i))
        /\ ~InLimits(calledMethod.paramTypes[i].type, Big(NewValue(i)))}

\* C18: when the new value of an integer reference parameter is a script
\* integer outside the limits of the type, the parameter's slot keeps its
\* pre-call value and the exception raised for it, which InternalCall prints,
\* is OverflowError and not the TypeError of a value of the wrong type.
C18_RangeErrorReported ==
    (ExactSequenceReturned /\ PyTuple_CheckExact(returned))
    => (/\ \A i \in OutOfRangeRefs : slots[ParamSlot(i)] = nativeParams[ParamSlot(i)]
        /\ Cardinality({j \in 1..Len(printed) : printed[j] = "OverflowError"})
              >= Cardinality(OutOfRangeRefs))

\* the script callable of a method returning Pointer returned a script integer
PointerReturned ==
    /\ pc = "returned"
    /\ called
    /\ calledMethod.retType.type = "Pointer"
    /\ ~HasRefParams(calledMethod)
    /\ PyLong_Check(returned)

\* C19: a script integer returned for a Pointer is converted into the return
\* register exactly when it lies in [0, 2^64 - 1]; for every other script
\* integer the conversion fails and the register holds the fallback.
C19_PointerRange ==
    PointerReturned
    => IF InLimits("UInt64", Big(returned))
       THEN exitPath = "return" /\ retReg = IntegerOf(returned)
       ELSE exitPath = "return fallback" /\ retReg = FallbackValue("Pointer")

\* the arguments of a Char8 or Char16 parameter that are script strings
CharParamsAttempted ==
    {i \in Attempted : /\ extMethod.paramTypes[i].type \in {"Char8", "Char16"}
                       /\ PyUnicode_Check(extArgs.v[i])}
\* the string is one character that is one code unit of the type
OneCodeUnit(type, s) ==
    /\ Len(s) = 1
    /\ ~IsSurrogate(s[1])
    /\ s[1] < (IF type = "Char8" THEN 128 ELSE 65536)

\* C20: for a Char8 or Char16 parameter the empty string converts to the
\* zero character, a string of one character that is one code unit of the
\* type converts to that code unit, and every other string fails with
\* ValueError and pushes nothing.
C20_SingleCharacterDecoding ==
    extPc = "returned"
    => \A i \in CharParamsAttempted :
          CASE extArgs.v[i].s = <<>> ->
                  PushSucceeded(i) /\ extScope.pushed[i] = Scalar(0)
            [] OneCodeUnit(extMethod.paramTypes[i].type, extArgs.v[i].s) ->
                  PushSucceeded(i) /\ extScope.pushed[i] = Scalar(extArgs.v[i].s[1])
            [] OTHER ->
                  ~PushSucceeded(i) /\ ~extScope.fatal /\ extScope.err = "ValueError"

\* the arguments of an array parameter that are script lists
ArrayParamsAttempted ==
    {i \in Attempted : /\ extMethod.paramTypes[i].type \in ArrayTypes
                       /\ PyList_Check(extArgs.v[i])}
\* the element converts: a value and no exception
ElementConverts(type, object) ==
    /\ ToNative(type, object, "").ok
    /\ ToNative(type, object, "").err = ""
\* the native array of the converted elements of a list
ConvertedElements(type, items) ==
    StdVector([j \in 1..Len(items) |-> ToNative(type, items[j], "").value])

\* C21: an array parameter's list converts to the native array of its
\* converted elements, in order, when every element converts; when an
\* element fails nothing is pushed for the parameter and no temporary is
\* stored for it in the scope.
C21_ArrayAllOrNothing ==
    extPc = "returned"
    => \A i \in ArrayParamsAttempted :
          IF \A j \in 1..Len(extArgs.v[i].v) :
                ElementConverts(ElementType[extMethod.paramTypes[i].type], extArgs.v[i].v[j])
          THEN /\ PushSucceeded(i)
               /\ extScope.pushed[i] = ConvertedElements(ElementType[extMethod.paramTypes[i].type],
                                                         extArgs.v[i].v)
          ELSE /\ ~PushSucceeded(i)
               /\ ~extScope.fatal
               /\ Len(extScope.storage) < (IF IsObject(extMethod.retType.type) THEN 1 ELSE 0) + i

\* the script values a scalar type represents: the two booleans, the
\* integers within the type's limits, the strings of no character or of one
\* character that is one code unit
Representable(type, object) ==
    CASE type = "Bool" -> PyBool_Check(object)
      [] type \in IntegerTypes -> IntegerInRange(type, object)
      [] type = "Pointer" -> IntegerInRange("UInt64", object)
      [] type \in {"Char8", "Char16"} ->
            PyUnicode_Check(object) /\ (object.s = <<>> \/ OneCodeUnit(type, object.s))
\* the script's ==: a boolean equals the integer of its value
RichCompareEq(a, b) ==
    \/ a = b
    \/ /\ PyLong_Check(a)
       /\ PyLong_Check(b)
       /\ Big(a) = Big(b)
\* a method (T ref)->Void of a scalar T was called with a value T represents
\* and the native function left the reference as it was
ScalarRoundTrip ==
    /\ extPc = "returned"
    /\ Len(extMethod.paramTypes) = 1
    /\ extMethod.paramTypes[1].ref
    /\ extMethod.paramTypes[1].type \in ScalarTypes
    /\ PyTuple_Check(extArgs)
    /\ Len(extArgs.v) = 1
    /\ Representable(extMethod.paramTypes[1].type, extArgs.v[1])
    /\ extScope.invoked => TemporaryOfParam(1).value = extScope.pushed[1]

\* C22: a script value a scalar type represents, converted to the native
\* temporary of a reference parameter and read back after a call that left
\* it alone, comes back as an equal script value.
C22_ScalarRoundTrip ==
    ScalarRoundTrip
    => (/\ PyTuple_CheckExact(extResult)
        /\ Len(extResult.v) = 2
        /\ RichCompareEq(extResult.v[2], extArgs.v[1]))

\* the native function of a method without parameters returned a value of a
\* type other than Function
NativeValueReturned ==
    /\ extPc = "returned"
    /\ extMethod.paramTypes = <<>>
    /\ extMethod.retType.type # "Function"
    /\ extScope.invoked

\* C23: whatever value of its return type the native function returns, the
\* conversion to a script value produces an object.
C23_ToScriptTotal ==
    NativeValueReturned => extResult # NullObj

\* a Matrix4x4 parameter was given the script object made from a native matrix
CreatedMatrixPassed ==
    /\ extPc = "returned"
    /\ Len(extMethod.paramTypes) = 1
    /\ extMethod.paramTypes[1] = Property("Matrix4x4", FALSE)
    /\ PyTuple_Check(extArgs)
    /\ Len(extArgs.v) = 1
    /\ extArgs.v[1] \in CreatedMatrices

\* C24: the script object CreateMatrix4x4Object makes from a native matrix
\* converts back, as a Matrix4x4 argument, to that matrix.
C24_MatrixRoundTrip ==
    CreatedMatrixPassed
    => (/\ PushSucceeded(1)
        /\ CreateMatrix4x4Object(extScope.pushed[1]).object = extArgs.v[1])

\* the dispatcher reached a parameter whose type no case of the push names
UnhandledParamReached ==
    /\ extPc = "returned"
    /\ \E i \in Attempted : extMethod.paramTypes[i] \in UnhandledParams

\* C25: when the push of the arguments reaches a parameter of a type
\* outside the handled set, the process is aborted: the dispatcher does not
\* return a result to the script caller.
C25_UnhandledTypeAborts ==
    UnhandledParamReached => extScope.fatal

\* a get-or-create call for a key that is not cached, in which the generation
\* of the wrapper fails
GenerationFails ==
    \/ \E method \in MethodNames, funcAddr \in KnownAddresses, jitOk, newOk \in BOOLEAN :
          /\ funcAddr \notin DOMAIN externalMap
          /\ ~(jitOk /\ newOk)
          /\ CallGetOrCreateFunctionObject(method, funcAddr, jitOk, newOk)
    \/ \E method \in MethodNames, object \in KnownObjects :
          /\ PyFunction_Check(object)
          /\ object \notin DOMAIN internalMap
          /\ CallGetOrCreateFunctionValue(method, object, FALSE)

\* C26: a get-or-create call in which the generation of the wrapper fails
\* reports RuntimeError, leaves both maps and both lists of wrappers as they
\* were, and every key cached before still finds its value.
C26_GenerationFailureIsolated ==
    [][GenerationFails
       => (/\ ~last'.ok
           /\ last'.err = "RuntimeError"
           /\ UNCHANGED identityVars
           /\ \A a \in DOMAIN externalMap :
                 FindExternal(externalMap', a) = FindExternal(externalMap, a)
           /\ \A o \in DOMAIN internalMap :
                 FindInternal(internalMap', o) = FindInternal(internalMap, o))]_vars

\* a generation failed while wrappers of both directions were cached
C26_Witness ==
    /\ last.op \in {"GetOrCreateFunctionObject", "GetOrCreateFunctionValue"}
    /\ ~last.ok
    /\ last.err = "RuntimeError"
    /\ externalFunctions # <<>>
    /\ internalFunctions # <<>>

\* the dispatcher handed a null result back to the script runtime
NullHandedBack ==
    /\ extPc = "returned"
    /\ ~extScope.fatal
    /\ extResult = NullObj

\* C27: whenever ExternalCall or ExternalCallNoArgs hands back a null
\* result, a script exception is pending.
C27_FailureRaisesException ==
    NullHandedBack => extScope.err # ""

\* InternalCall returned from a call of a method without reference
\* parameters whose arguments were all converted
ArgumentsConverted ==
    /\ pc = "returned"
    /\ ~HasRefParams(calledMethod)
    /\ exitPath # "argument"
\* the script object of the native value the caller put in the slot of
\* parameter i
ObjectOfParam(i) ==
    LET type == calledMethod.paramTypes[i].type
        slot == nativeParams[ParamsStartIndex(platform, calledMethod) + i]
    IN IF type \in ArrayTypes THEN CreatePyObjectList(ElementType[type], slot).object
       ELSE CreatePyObject(type, slot).object

\* C28: in a call of a method without reference parameters the callable is
\* called with one argument for each declared parameter, in order, parameter
\* i converted from the slot after the hidden return slot when there is one,
\* and the whole object it returns, a tuple too, is the object converted
\* into the return target.
C28_CallWithoutReferences ==
    ArgumentsConverted
    => (/\ ~terminated
        /\ called
        /\ Len(passed) = Len(calledMethod.paramTypes)
        /\ \A i \in 1..Len(passed) :
              calledMethod.paramTypes[i].type # "Function" => passed[i] = ObjectOfParam(i)
        /\ returned # NullObj
              => (/\ exitPath \in {"return", "return fallback"}
                  /\ ReturnConvertedFrom(returned)
                  /\ (calledMethod.retType.type \notin {"Void", "Function"}
                         /\ ~Converts(calledMethod.retType.type, returned))
                        => exitPath = "return fallback"))

\* C29: on every path by which InternalCall returns to the native caller no
\* script exception is pending.
C29_NoErrorLeftBehind ==
    (pc = "returned" /\ ~terminated) => pyErr = ""

\* two threads have both come back with a value from the same get-or-create
\* call for the same key
SameKeyDone(t, u) ==
    /\ t # u
    /\ threads[t].pc = "done"
    /\ threads[u].pc = "done"
    /\ threads[t].op = threads[u].op
    /\ threads[t].key = threads[u].key
    /\ threads[t].key # Py_None
    /\ threads[t].ok
    /\ threads[u].ok
\* the wrappers generated and kept for a key
WrappersOf(op, key) ==
    IF op = "object"
    THEN {i \in 1..Len(externalFunctions) :
             FindInternal(internalMap, externalFunctions[i].object) = key}
    ELSE {i \in 1..Len(internalFunctions) : internalFunctions[i].object = key}

\* C30: when two threads call get-or-create for the same key, however
\* their steps interleave, one wrapper is generated and registered, both
\* receive it, and the two maps are mutual inverses.
C30_ConcurrentCreationExclusive ==
    \A t, u \in Threads :
       SameKeyDone(t, u)
       => (/\ ~raceFault
           /\ threads[t].value = threads[u].value
           /\ Cardinality(WrappersOf(threads[t].op, threads[t].key)) = 1
           /\ Len(IF threads[t].op = "object" THEN externalFunctions ELSE internalFunctions) = 1
           /\ C1_MapsMutualInverses)

====
